---- MODULE Spec2Model ----
(***************************************************************************)
(* A model of ccs: CCS systems (src/src/ccs.rs), the LTS explorer          *)
(* (src/src/lts.rs) and the two bisimulation engines, the naive fixpoint   *)
(* (src/src/bisimilarity/naive.rs) and Paige-Tarjan partition refinement   *)
(* (src/src/bisimilarity/paige_tarjan.rs).                                 *)
(*                                                                         *)
(* Intrusive RcLists whose members are only appended, removed and iterated *)
(* are modelled as sequences of node identities.  Rc<RefCell<..>> objects  *)
(* live in heaps indexed by identity: blocks and counter cells by number,  *)
(* State nodes by the process they own.  Rust leaves the iteration order   *)
(* of HashSet and HashMap unspecified: HashOrder fixes one order per set,  *)
(* and the order of the engine's label vector, which refine() iterates,    *)
(* is chosen freely when the engine is built.                              *)
(*                                                                         *)
(* Spec is the bisimilarity driver with both engines.  PTSpec and NFSpec   *)
(* run one engine each, LtsSpec runs the explorer's three iterators, and   *)
(* SuccSpec calls direct_successors on single terms.  PTSpec, NFSpec and   *)
(* LtsSpec state the fairness of the loop they run.  ListSpec calls the    *)
(* operations of RcList (src/src/bisimilarity/list.rs), modelled with its  *)
(* head, tail, size and the next and prev links of the elements, on two    *)
(* lists that use the same link field.                                     *)
(***************************************************************************)
EXTENDS Integers, Sequences, FiniteSets, TLC

VARIABLES
    pc,        \* position of the driver (main.rs bisimilarity / the compare test)
    sys1,      \* first input system (CCSSystem)
    sys2,      \* second input system, or NoSystem
    system,    \* the system handed to Lts::new, or NoSystem
    ret,       \* value returned by the most recent call
    nf,        \* the NaiveFixpoint engine (done, state_map, relation)
    pt,        \* the PaigeTarjan engine (done, c_blocks, r_blocks, p_blocks, labels, states)
    blocks,    \* heap of Block objects
    nodes,     \* heap of paige_tarjan State objects, by process
    trans,     \* heap of paige_tarjan Transition objects
    cells,     \* heap of Rc<RefCell<usize>> counters
    frame,     \* locals of the running refine() call
    iter,      \* the LTS iterator the driver loops over
    yielded,   \* the items that iterator has returned so far
    lists,     \* the RcLists of the list driver (head, tail, size), by number
    links      \* the ListRef (next, prev) of each element these lists share

vars == <<pc, sys1, sys2, system, ret, nf, pt, blocks, nodes, trans, cells, frame,
          iter, yielded, lists, links>>

----------------------------------------------------------------------------
(* Bounds of the model *)

\* the exhaustive input family holds every system with at most this many prefixes
MaxEdges == 3

\* the traces iterator is followed for at most this many returned traces
MaxTraces == 8

\* the list driver appends and removes this many elements
MaxElems == 3

----------------------------------------------------------------------------
(* ccs.rs: terms and systems *)

TAU == "tau"

Deadlock == [op |-> "Deadlock"]
ProcessName(n) == [op |-> "ProcessName", name |-> n]
Action(a, p) == [op |-> "Action", label |-> a, proc |-> p]
NonDetChoice(l, r) == [op |-> "NonDetChoice", left |-> l, right |-> r]
Parallel(l, r) == [op |-> "Parallel", left |-> l, right |-> r]
Rename(p, b, a) == [op |-> "Rename", proc |-> p, to |-> b, from |-> a]
Restriction(p, a) == [op |-> "Restriction", proc |-> p, label |-> a]

\* CCSSystem { processes, destinct_process }; processes is a function on the defined names
CCSSystem(processes, root) == [processes |-> processes, destinct_process |-> root]

NoSystem == [processes |-> <<>>, destinct_process |-> "none"]

actions_complementary(a, b) == a = (b \o "'") \/ b = (a \o "'")

RECURSIVE direct_successors(_, _)

\* a faulty direct_successors: a restriction drops the moves labelled with its
\* label and keeps those labelled with the complement
direct_successors_keep_complement(p, s) ==
    CASE p.op = "Deadlock" -> {}
      [] p.op = "ProcessName" ->
            IF p.name \in DOMAIN s.processes
            THEN direct_successors(s.processes[p.name], s)
            ELSE {}
      [] p.op = "Action" -> {<<p.label, p.proc>>}
      [] p.op = "NonDetChoice" ->
            direct_successors(p.left, s) \cup direct_successors(p.right, s)
      [] p.op = "Parallel" ->
            LET ls == direct_successors(p.left, s)
                rs == direct_successors(p.right, s)
            IN  {<<x[1], Parallel(x[2], p.right)>> : x \in ls}
                \cup {<<y[1], Parallel(p.left, y[2])>> : y \in rs}
                \cup {<<TAU, Parallel(xy[1][2], xy[2][2])>> :
                        xy \in {z \in ls \X rs : actions_complementary(z[1][1], z[2][1])}}
      [] p.op = "Rename" ->
            {<<IF x[1] = p.from THEN p.to ELSE x[1], Rename(x[2], p.to, p.from)>> :
                x \in direct_successors(p.proc, s)}
      [] p.op = "Restriction" ->
            {<<x[1], Restriction(x[2], p.label)>> :
                x \in {y \in direct_successors(p.proc, s) : y[1] # p.label}}

\* Process::direct_successors
direct_successors(p, s) ==
    CASE p.op = "Deadlock" -> {}
      [] p.op = "ProcessName" ->
            IF p.name \in DOMAIN s.processes
            THEN direct_successors(s.processes[p.name], s)
            ELSE {}
      [] p.op = "Action" -> {<<p.label, p.proc>>}
      [] p.op = "NonDetChoice" ->
            direct_successors(p.left, s) \cup direct_successors(p.right, s)
      [] p.op = "Parallel" ->
            LET ls == direct_successors(p.left, s)
                rs == direct_successors(p.right, s)
            IN  {<<x[1], Parallel(x[2], p.right)>> : x \in ls}
                \cup {<<y[1], Parallel(p.left, y[2])>> : y \in rs}
                \cup {<<TAU, Parallel(xy[1][2], xy[2][2])>> :
                        xy \in {z \in ls \X rs : actions_complementary(z[1][1], z[2][1])}}
      [] p.op = "Rename" ->
            {<<IF x[1] = p.from THEN p.to ELSE x[1], Rename(x[2], p.to, p.from)>> :
                x \in direct_successors(p.proc, s)}
      [] p.op = "Restriction" ->
            {<<x[1], Restriction(x[2], p.label)>> :
                x \in {y \in direct_successors(p.proc, s) :
                        y[1] # p.label /\ ~actions_complementary(y[1], p.label)}}

\* direct_successors_helper has no base case for a name it is already
\* evaluating: the call for ProcessName(n) made again below itself, with no
\* Action in between, has the same arguments and so recurses until the stack
\* is exhausted.  stack holds the names whose definitions are being evaluated.
RECURSIVE overflows(_, _, _)
overflows(p, s, stack) ==
    CASE p.op = "Deadlock" -> FALSE
      [] p.op = "ProcessName" ->
            IF p.name \in DOMAIN s.processes
            THEN p.name \in stack
                 \/ overflows(s.processes[p.name], s, stack \cup {p.name})
            ELSE FALSE
      [] p.op = "Action" -> FALSE
      [] p.op \in {"NonDetChoice", "Parallel"} ->
            overflows(p.left, s, stack) \/ overflows(p.right, s, stack)
      [] p.op \in {"Rename", "Restriction"} -> overflows(p.proc, s, stack)

----------------------------------------------------------------------------
(* Iteration order of std::collections::HashSet / HashMap *)

RECURSIVE HashOrder(_)
HashOrder(S) ==
    IF S = {} THEN <<>>
    ELSE LET x == CHOOSE y \in S : TRUE IN <<x>> \o HashOrder(S \ {x})

Range(q) == {q[i] : i \in DOMAIN q}

\* RcList::remove of a member
Remove(q, e) == SelectSeq(q, LAMBDA x : x # e)

\* Vec::dedup: drops every element equal to its predecessor
RECURSIVE Dedup(_)
Dedup(q) ==
    IF Len(q) <= 1 THEN q
    ELSE IF q[1] = q[2] THEN Dedup(Tail(q))
         ELSE <<q[1]>> \o Dedup(Tail(q))

----------------------------------------------------------------------------
(* lts.rs: the explorer, with allow_duplicates = false *)

\* Lts::states
LtsStates(s) ==
    [discovered |-> {}, undiscovered |-> <<ProcessName(s.destinct_process)>>]

\* LtsStateIterator::next; some = FALSE stands for None
LtsStateIteratorNext(it, s) ==
    IF it.undiscovered = <<>> THEN [some |-> FALSE, it |-> it]
    ELSE LET item == Head(it.undiscovered)
             succs == HashOrder(direct_successors(item, s))
             targets == [i \in DOMAIN succs |-> succs[i][2]]
             Fresh(t) == t \notin it.discovered /\ t # item
         IN  [some |-> TRUE, item |-> item,
              it |-> [discovered |-> it.discovered \cup {item},
                      undiscovered |-> Tail(it.undiscovered)
                                       \o Dedup(SelectSeq(targets, Fresh))]]

\* collect() of the states iterator
RECURSIVE CollectStates(_, _)
CollectStates(it, s) ==
    LET r == LtsStateIteratorNext(it, s)
    IN  IF r.some THEN <<r.item>> \o CollectStates(r.it, s) ELSE <<>>

\* Lts::transitions
LtsTransitions(s) ==
    [discovered |-> {}, cached |-> <<>>,
     undiscovered |-> <<ProcessName(s.destinct_process)>>]

\* LtsTransitionIterator::next
RECURSIVE LtsTransitionIteratorNext(_, _)
LtsTransitionIteratorNext(it, s) ==
    IF it.cached # <<>>
    THEN [some |-> TRUE, item |-> Head(it.cached),
          it |-> [it EXCEPT !.cached = Tail(it.cached)]]
    ELSE IF it.undiscovered = <<>> THEN [some |-> FALSE, it |-> it]
    ELSE LET item == Head(it.undiscovered)
             succs == HashOrder(direct_successors(item, s))
             targets == [i \in DOMAIN succs |-> succs[i][2]]
             Fresh(t) == t \notin it.discovered /\ t # item
             triples == HashOrder({<<item, x[1], x[2]>> : x \in direct_successors(item, s)})
             it2 == [discovered |-> it.discovered \cup {item},
                     cached |-> triples,
                     undiscovered |-> Tail(it.undiscovered) \o SelectSeq(targets, Fresh)]
         IN  IF it2.cached # <<>>
             THEN [some |-> TRUE, item |-> Head(it2.cached),
                   it |-> [it2 EXCEPT !.cached = Tail(it2.cached)]]
             ELSE IF it2.undiscovered # <<>>
                  THEN LtsTransitionIteratorNext(it2, s)
                  ELSE [some |-> FALSE, it |-> it2]

\* collect() of the transitions iterator
RECURSIVE CollectTransitions(_, _)
CollectTransitions(it, s) ==
    LET r == LtsTransitionIteratorNext(it, s)
    IN  IF r.some THEN <<r.item>> \o CollectTransitions(r.it, s) ELSE <<>>

\* Lts::traces; an item of the queue is a pair (trace, process)
LtsTraces(s) ==
    [discovered |-> {}, cached |-> <<>>,
     undiscovered |-> <<[trace |-> <<>>, proc |-> ProcessName(s.destinct_process)]>>]

\* LtsTraceIterator::next
RECURSIVE LtsTraceIteratorNext(_, _)
LtsTraceIteratorNext(it, s) ==
    IF it.cached # <<>>
    THEN [some |-> TRUE, item |-> Head(it.cached),
          it |-> [it EXCEPT !.cached = Tail(it.cached)]]
    ELSE IF it.undiscovered = <<>> THEN [some |-> FALSE, it |-> it]
    ELSE LET item == Head(it.undiscovered)
             traces == {[trace |-> Append(item.trace, x[1]), proc |-> x[2]] :
                            x \in direct_successors(item.proc, s)}
             newly_cached == {tp.trace : tp \in {x \in traces :
                                 x \notin it.discovered /\ x.trace \notin Range(it.cached)}}
             it2 == [discovered |-> it.discovered \cup {item},
                     cached |-> it.cached \o HashOrder(newly_cached),
                     undiscovered |-> Tail(it.undiscovered) \o HashOrder(traces)]
         IN  IF it2.cached # <<>>
             THEN [some |-> TRUE, item |-> Head(it2.cached),
                   it |-> [it2 EXCEPT !.cached = Tail(it2.cached)]]
             ELSE IF it2.undiscovered # <<>>
                  THEN LtsTraceIteratorNext(it2, s)
                  ELSE [some |-> FALSE, it |-> it2]

\* does this call of next() evaluate the successors of a term on which
\* direct_successors exhausts the stack?  A call that finds nothing to return
\* and a non-empty queue calls itself.
RECURSIVE next_overflows(_, _, _)
next_overflows(it, s, kind) ==
    IF it.undiscovered = <<>> THEN FALSE
    ELSE IF kind # "states" /\ it.cached # <<>> THEN FALSE
    ELSE LET head == Head(it.undiscovered)
             item == IF kind = "traces" THEN head.proc ELSE head
         IN  IF overflows(item, s, {}) THEN TRUE
             ELSE /\ kind # "states"
                  /\ direct_successors(item, s) = {}
                  /\ next_overflows([it EXCEPT !.undiscovered = Tail(it.undiscovered)],
                                    s, kind)

\* does collecting lts.states(false) or lts.transitions(false) reach a term on
\* which direct_successors exhausts the stack?  Both iterators evaluate the
\* successors of every term they pop, and pop every term reachable from the root.
RECURSIVE explore_overflows(_, _)
explore_overflows(s, seen) ==
    IF \E p \in seen : overflows(p, s, {}) THEN TRUE
    ELSE LET more == seen \cup {x[2] : x \in UNION {direct_successors(p, s) : p \in seen}}
         IN  IF more = seen THEN FALSE ELSE explore_overflows(s, more)

\* what a build makes of the endless recursion: the stack overflows and the
\* process aborts, or, where the recursive call was compiled into a jump, the
\* call never returns
StackOverflow == {"overflow", "hang"}

\* the LTS as the engines read it: lts.states(false) and lts.transitions(false), collected
StatesOf(s) == CollectStates(LtsStates(s), s)
TransitionsOf(s) == CollectTransitions(LtsTransitions(s), s)

----------------------------------------------------------------------------
(* bisimilarity/naive.rs *)

\* rounds counts the refine() calls of bisimulation(); last_size is its local
NoNaive == [built |-> FALSE, done |-> FALSE, state_map |-> <<>>,
            relation |-> <<>>, last_size |-> 0, rounds |-> 0]

\* NaiveFixpoint::init_relation over the all_states list
RECURSIVE init_relation_from(_, _)
init_relation_from(rest, all) ==
    IF rest = <<>> THEN <<>>
    ELSE LET s == Head(rest)
             others == SelectSeq(all, LAMBDA t : t # s)
         IN  [i \in DOMAIN others |-> <<s, others[i]>>] \o <<<<s, s>>>>
             \o init_relation_from(Tail(rest), all)

init_relation(all) == init_relation_from(all, all)

\* NaiveFixpoint::new: state_map maps each process to its State's transitions list
NaiveFixpointNew(s) ==
    LET keys == Range(StatesOf(s))
        ts == TransitionsOf(s)
        state_map == [p \in keys |-> SelectSeq(ts, LAMBDA t : t[1] = p)]
        all_states == HashOrder(keys)
    IN  [built |-> TRUE, done |-> FALSE, state_map |-> state_map,
         relation |-> init_relation(all_states), last_size |-> 0, rounds |-> 0]

\* a faulty is_in_f: the moves of s are matched by t, but not those of t by s
is_in_f_one_way(e, s, t) ==
    LET st == e.state_map[s]
        tt == e.state_map[t]
        rel == Range(e.relation)
    IN  \A i \in DOMAIN st : \E j \in DOMAIN tt :
            tt[j][2] = st[i][2] /\ <<st[i][3], tt[j][3]>> \in rel

\* NaiveFixpoint::is_in_f
is_in_f(e, s, t) ==
    LET st == e.state_map[s]
        tt == e.state_map[t]
        rel == Range(e.relation)
    IN  /\ \A i \in DOMAIN st : \E j \in DOMAIN tt :
              tt[j][2] = st[i][2] /\ <<st[i][3], tt[j][3]>> \in rel
        /\ \A j \in DOMAIN tt : \E i \in DOMAIN st :
              tt[j][2] = st[i][2] /\ <<tt[j][3], st[i][3]>> \in rel

\* a faulty apply_f: every round drops the last pair, whatever it is
apply_f_drop_last(e) ==
    IF e.relation = <<>> THEN <<>> ELSE SubSeq(e.relation, 1, Len(e.relation) - 1)

\* NaiveFixpoint::apply_f (refine)
apply_f(e) == SelectSeq(e.relation, LAMBDA pr : is_in_f(e, pr[1], pr[2]))

----------------------------------------------------------------------------
(* bisimilarity/paige_tarjan.rs: construction *)

\* the labels the inputs use, in the byte order of their strings (Ord for Rc<String>);
\* "tau" stands for the two-byte string of the silent action, which sorts last
LabelsByOrd == <<"a", "a'", "b", "down", "up", "tau">>

LabelRank(l) == CHOOSE i \in DOMAIN LabelsByOrd : LabelsByOrd[i] = l

\* labels.sort(); labels.dedup()
SortedLabels(ls) == SelectSeq(LabelsByOrd, LAMBDA l : l \in ls)

\* Ord for Vec<ActionLabel>: lexicographic, a proper prefix first
RECURSIVE VecLess(_, _)
VecLess(v, w) ==
    IF w = <<>> THEN FALSE
    ELSE IF v = <<>> THEN TRUE
    ELSE IF v[1] # w[1] THEN LabelRank(v[1]) < LabelRank(w[1])
    ELSE VecLess(Tail(v), Tail(w))

\* BTreeMap::into_values: by ascending key
RECURSIVE KeysAscending(_)
KeysAscending(K) ==
    IF K = {} THEN <<>>
    ELSE LET k == CHOOSE x \in K : \A y \in K \ {x} : VecLess(x, y)
         IN  <<k>> \o KeysAscending(K \ {k})

Block_new == [elements |-> <<>>, children |-> <<>>, attached |-> 0, upper_in_r |-> 0]

NoPaigeTarjan == [built |-> FALSE, done |-> FALSE, c_blocks |-> <<>>, r_blocks |-> <<>>,
                  p_blocks |-> <<>>, labels |-> <<>>, states |-> <<>>]

NoFrame == [divider |-> 0, b |-> 0, label |-> 0, b_prime |-> <<>>, pred_b |-> <<>>,
            limited_pred_b |-> <<>>]

IndexOf(q, e) == CHOOSE i \in DOMAIN q : q[i] = e

\* the positions in the transition list of the transitions out of p, the
\* out_transitions of its State, and of those into p, its in_transitions
out_transitions_of(ts, p) == SelectSeq([i \in DOMAIN ts |-> i], LAMBDA i : ts[i][1] = p)
in_transitions_into(ts, p) == SelectSeq([i \in DOMAIN ts |-> i], LAMBDA i : ts[i][3] = p)

\* a faulty key: the labels of the in_transitions of p
block_key_incoming(ts, p) == SortedLabels({t[2] : t \in {x \in Range(ts) : x[3] = p}})

\* the key of p in block_map: the labels of its out_transitions, sorted and deduplicated
block_key(ts, p) == SortedLabels({t[2] : t \in {x \in Range(ts) : x[1] = p}})

\* new_with_labels over the collected states (in the order states.into_values()
\* yields) and transitions; labelVec is the order labels.into_iter() yields.
\* Block 1 is Q, block 2 the empty block, blocks 3.. the initial blocks of P.
\* Cell i is the counter of State::new for the i-th state, cell n + i the counter
\* shared by that state's outgoing transitions.
new_from(all_states, ts, labelVec) ==
    LET n == Len(all_states)
        block_map == KeysAscending({block_key(ts, p) : p \in Range(all_states)})
        q == [Block_new EXCEPT !.children = <<2>> \o [k \in DOMAIN block_map |-> 2 + k]]
        empty == [Block_new EXCEPT !.upper_in_r = 1]
        initial == [k \in DOMAIN block_map |->
                      [Block_new EXCEPT
                         !.elements = SelectSeq(all_states,
                                                LAMBDA p : block_key(ts, p) = block_map[k]),
                         !.upper_in_r = 1]]
    IN  [pt |-> [built |-> TRUE, done |-> FALSE, c_blocks |-> <<1>>, r_blocks |-> <<1>>,
                 p_blocks |-> [k \in DOMAIN block_map |-> 2 + k],
                 labels |-> labelVec, states |-> all_states],
         blocks |-> <<q, empty>> \o initial,
         nodes |-> [p \in Range(all_states) |->
                      [in_transitions |-> in_transitions_into(ts, p),
                       out_transitions |-> out_transitions_of(ts, p),
                       mark3 |-> FALSE, mark5 |-> FALSE,
                       count |-> IndexOf(all_states, p),
                       block_in_p |-> 2 + IndexOf(block_map, block_key(ts, p))]],
         trans |-> [i \in DOMAIN ts |->
                      [desc |-> ts[i], count |-> n + IndexOf(all_states, ts[i][1])]],
         cells |-> [i \in 1..(2 * n) |->
                      IF i <= n THEN 0
                      ELSE Len(out_transitions_of(ts, all_states[i - n]))]]

\* PaigeTarjan::new_with_labels
new_with_labels(s, labelVec) ==
    new_from(HashOrder(Range(StatesOf(s))), TransitionsOf(s), labelVec)

\* the orders labels.into_iter().collect() can yield
VecOrders(S) ==
    {q \in [1..Cardinality(S) -> S] : \A i, j \in DOMAIN q : i # j => q[i] # q[j]}

LabelsOf(s) == {t[2] : t \in Range(TransitionsOf(s))}

----------------------------------------------------------------------------
(* bisimilarity/paige_tarjan.rs: refine and split.  The operators below take
   and return a heap h = [pt, blocks, nodes, trans, cells, panic]; panic is
   set when an unwrap or assert of the code fails. *)

\* a faulty step 1: the comparison is reversed
larger_child(h, divider) ==
    LET child1 == h.blocks[divider].children[1]
        child2 == h.blocks[divider].children[2]
        size1 == Len(h.blocks[child1].elements)
        size2 == Len(h.blocks[child2].elements)
    IN  IF size1 < size2 THEN child2 ELSE child1

\* refine, steps 1 and 2: the child of the divider that becomes B
smaller_child(h, divider) ==
    LET child1 == h.blocks[divider].children[1]
        child2 == h.blocks[divider].children[2]
        size1 == Len(h.blocks[child1].elements)
        size2 == Len(h.blocks[child2].elements)
    IN  IF size1 < size2 THEN child1 ELSE child2

\* a faulty step 2: B keeps the divider as its upper_in_r
select_divider_keep_upper(h) ==
    LET divider == Head(h.pt.c_blocks)
        popped == Tail(h.pt.c_blocks)
        b == smaller_child(h, divider)
        rest == Remove(h.blocks[divider].children, b)
        s_prime == Len(h.blocks) + 1
    IN  IF Len(h.blocks[divider].children) < 2
        THEN [h EXCEPT !.panic = TRUE, !.pt.c_blocks = popped]
        ELSE [h EXCEPT
                !.blocks = Append([h.blocks EXCEPT ![divider].children = rest],
                                  [Block_new EXCEPT !.children = <<b>>]),
                !.pt.r_blocks = Append(h.pt.r_blocks, s_prime),
                !.pt.c_blocks = IF Len(rest) > 1 THEN Append(popped, divider) ELSE popped]

\* refine, steps 1 and 2: select the divider and update R
select_divider(h) ==
    LET divider == Head(h.pt.c_blocks)
        popped == Tail(h.pt.c_blocks)
        b == smaller_child(h, divider)
        rest == Remove(h.blocks[divider].children, b)
        s_prime == Len(h.blocks) + 1
    IN  IF Len(h.blocks[divider].children) < 2
        THEN [h EXCEPT !.panic = TRUE, !.pt.c_blocks = popped]
        ELSE [h EXCEPT
                !.blocks = Append([h.blocks EXCEPT ![divider].children = rest,
                                                   ![b].upper_in_r = s_prime],
                                  [Block_new EXCEPT !.children = <<b>>]),
                !.pt.r_blocks = Append(h.pt.r_blocks, s_prime),
                !.pt.c_blocks = IF Len(rest) > 1 THEN Append(popped, divider) ELSE popped]

\* the in_transitions with the given label of the states of a list, in iteration order
RECURSIVE in_transitions_of(_, _, _)
in_transitions_of(h, elems, label) ==
    IF elems = <<>> THEN <<>>
    ELSE SelectSeq(h.nodes[Head(elems)].in_transitions,
                   LAMBDA t : h.trans[t].desc[2] = label)
         \o in_transitions_of(h, Tail(elems), label)

\* refine, step 3: count and mark the predecessors of B; out is pred_b
RECURSIVE calc_predecessors(_, _, _)
calc_predecessors(h, tids, out) ==
    IF tids = <<>> THEN [h |-> h, out |-> out]
    ELSE LET lhs == h.trans[Head(tids)].desc[1]
             h2 == [h EXCEPT !.cells[h.nodes[lhs].count] = @ + 1]
         IN  IF h.nodes[lhs].mark3
             THEN calc_predecessors(h2, Tail(tids), out)
             ELSE calc_predecessors([h2 EXCEPT !.nodes[lhs].mark3 = TRUE],
                                    Tail(tids), Append(out, lhs))

\* the test of step 5 on one transition into B'
is_limited_pred(h, t) ==
    LET lhs == h.trans[t].desc[1]
        trans_count == h.cells[h.trans[t].count]
        lhs_count == h.cells[h.nodes[lhs].count]
    IN  lhs_count = trans_count /\ ~h.nodes[lhs].mark5

\* refine, step 5: the predecessors of B that are no predecessors of S - B
RECURSIVE calc_limited_predecessors(_, _, _)
calc_limited_predecessors(h, tids, out) ==
    IF tids = <<>> THEN [h |-> h, out |-> out]
    ELSE LET lhs == h.trans[Head(tids)].desc[1]
         IN  IF is_limited_pred(h, Head(tids))
             THEN calc_limited_predecessors([h EXCEPT !.nodes[lhs].mark5 = TRUE],
                                            Tail(tids), Append(out, lhs))
             ELSE calc_limited_predecessors(h, Tail(tids), out)

RECURSIVE update_counters(_, _)

\* a faulty first loop of step 7: the counter is decremented but the transition
\* keeps it
update_counters_no_alias(h, tids) ==
    IF tids = <<>> \/ h.panic THEN h
    ELSE LET t == Head(tids)
         IN  IF h.cells[h.trans[t].count] = 0
             THEN [h EXCEPT !.panic = TRUE]
             ELSE update_counters([h EXCEPT !.cells[h.trans[t].count] = @ - 1],
                                  Tail(tids))

\* refine, step 7, first loop: decrement and re-alias the transition counters
update_counters(h, tids) ==
    IF tids = <<>> \/ h.panic THEN h
    ELSE LET t == Head(tids)
             lhs == h.trans[t].desc[1]
         IN  IF h.cells[h.trans[t].count] = 0
             THEN [h EXCEPT !.panic = TRUE]
             ELSE update_counters(
                    [h EXCEPT !.cells[h.trans[t].count] = @ - 1,
                              !.trans[t].count = h.nodes[lhs].count],
                    Tail(tids))

\* refine, step 7, second loop: clear the marks and give a fresh counter
RECURSIVE cleanup_markers(_, _)
cleanup_markers(h, elems) ==
    IF elems = <<>> THEN h
    ELSE cleanup_markers(
            [h EXCEPT !.nodes[Head(elems)].mark3 = FALSE,
                      !.nodes[Head(elems)].mark5 = FALSE,
                      !.nodes[Head(elems)].count = Len(h.cells) + 1,
                      !.cells = Append(h.cells, 0)],
            Tail(elems))

RECURSIVE split_move(_, _, _)

\* a faulty first loop: a moved state is not removed from the elements of its block
split_move_no_remove(h, pred, out) ==
    IF pred = <<>> THEN [h |-> h, out |-> out]
    ELSE LET s_small == Head(pred)
             d == h.nodes[s_small].block_in_p
             fresh == h.blocks[d].attached = 0
             upper == h.blocks[d].upper_in_r
             d_prime == IF fresh THEN Len(h.blocks) + 1 ELSE h.blocks[d].attached
             h2 == IF fresh
                   THEN [h EXCEPT
                           !.blocks = Append([h.blocks EXCEPT
                                                ![d].attached = d_prime,
                                                ![upper].children = Append(@, d_prime)],
                                             [Block_new EXCEPT !.upper_in_r = upper]),
                           !.pt.p_blocks = Append(h.pt.p_blocks, d_prime)]
                   ELSE h
         IN  split_move(
                [h2 EXCEPT !.blocks[d_prime].elements = Append(@, s_small),
                           !.nodes[s_small].block_in_p = d_prime],
                Tail(pred),
                IF fresh THEN Append(out, d) ELSE out)

\* a faulty first loop: every state of the list is moved to the block attached to
\* the block of the first one
split_move_to_first(h, pred, out) ==
    IF pred = <<>> THEN [h |-> h, out |-> out]
    ELSE LET s_small == Head(pred)
             d == h.nodes[s_small].block_in_p
             fresh == out = <<>>
             upper == h.blocks[d].upper_in_r
             d_prime == IF fresh THEN Len(h.blocks) + 1 ELSE h.blocks[out[1]].attached
             h2 == IF fresh
                   THEN [h EXCEPT
                           !.blocks = Append([h.blocks EXCEPT
                                                ![d].attached = d_prime,
                                                ![upper].children = Append(@, d_prime)],
                                             [Block_new EXCEPT !.upper_in_r = upper]),
                           !.pt.p_blocks = Append(h.pt.p_blocks, d_prime)]
                   ELSE h
         IN  split_move(
                [h2 EXCEPT !.blocks[d].elements = Remove(@, s_small),
                           !.blocks[d_prime].elements = Append(@, s_small),
                           !.nodes[s_small].block_in_p = d_prime],
                Tail(pred),
                IF fresh THEN Append(out, d) ELSE out)

\* split, first loop: move every state of the list to the attached block of its block;
\* out is the splitblocks list.  A remove of an element that is not in the list
\* fails the assertion of RcList::remove or breaks the links of the list: the run
\* is ended as a panic
split_move(h, pred, out) ==
    IF pred = <<>> THEN [h |-> h, out |-> out]
    ELSE LET s_small == Head(pred)
             d == h.nodes[s_small].block_in_p
             fresh == h.blocks[d].attached = 0
             upper == h.blocks[d].upper_in_r
             d_prime == IF fresh THEN Len(h.blocks) + 1 ELSE h.blocks[d].attached
             h2 == IF fresh
                   THEN [h EXCEPT
                           !.blocks = Append([h.blocks EXCEPT
                                                ![d].attached = d_prime,
                                                ![upper].children = Append(@, d_prime)],
                                             [Block_new EXCEPT !.upper_in_r = upper]),
                           !.pt.p_blocks = Append(h.pt.p_blocks, d_prime)]
                   ELSE h
         IN  split_move(
                [h2 EXCEPT !.blocks[d].elements = Remove(@, s_small),
                           !.blocks[d_prime].elements = Append(@, s_small),
                           !.nodes[s_small].block_in_p = d_prime,
                           !.panic = @ \/ s_small \notin Range(h.blocks[d].elements)],
                Tail(pred),
                IF fresh THEN Append(out, d) ELSE out)

RECURSIVE split_finish(_, _)

\* a faulty second loop: an emptied block stays in P
split_finish_keep_empty(h, splitblocks) ==
    IF splitblocks = <<>> THEN h
    ELSE LET d == Head(splitblocks)
             u == h.blocks[d].upper_in_r
             h2 == [h EXCEPT !.blocks[d].attached = 0]
         IN  split_finish(
                IF h.blocks[d].elements = <<>>
                THEN [h2 EXCEPT !.blocks[u].children = Remove(@, d)]
                ELSE IF Len(h.blocks[u].children) = 2
                     THEN [h2 EXCEPT !.pt.c_blocks = Append(@, u)]
                     ELSE h2,
                Tail(splitblocks))

\* a faulty second loop: a parent that became compound is not queued
split_finish_no_queue(h, splitblocks) ==
    IF splitblocks = <<>> THEN h
    ELSE LET d == Head(splitblocks)
             u == h.blocks[d].upper_in_r
             h2 == [h EXCEPT !.blocks[d].attached = 0]
         IN  split_finish(
                IF h.blocks[d].elements = <<>>
                THEN [h2 EXCEPT !.pt.p_blocks = Remove(@, d),
                                !.blocks[u].children = Remove(@, d)]
                ELSE h2,
                Tail(splitblocks))

\* split, second loop: drop the emptied blocks, queue the parents that became compound
split_finish(h, splitblocks) ==
    IF splitblocks = <<>> THEN h
    ELSE LET d == Head(splitblocks)
             u == h.blocks[d].upper_in_r
             h2 == [h EXCEPT !.blocks[d].attached = 0]
         IN  split_finish(
                IF h.blocks[d].elements = <<>>
                THEN [h2 EXCEPT !.pt.p_blocks = Remove(@, d),
                                !.blocks[u].children = Remove(@, d),
                                !.panic = @ \/ d \notin Range(h.pt.p_blocks)
                                            \/ d \notin Range(h.blocks[u].children)]
                ELSE IF Len(h.blocks[u].children) = 2
                     THEN [h2 EXCEPT !.pt.c_blocks = Append(@, u)]
                     ELSE h2,
                Tail(splitblocks))

\* PaigeTarjan::split
split(h, pred_b) ==
    LET moved == split_move(h, pred_b, <<>>)
    IN  split_finish(moved.h, moved.out)

\* a faulty finished: the loop stops with one block left on the work list
finished_early(e) == Len(e.c_blocks) <= 1

\* PaigeTarjan::finished
finished(e) == e.c_blocks = <<>>

\* a faulty register_into_relation: each unordered pair is pushed once
register_once(elems) ==
    LET n == Len(elems)
        all == [k \in 1..(n * n) |->
                  <<elems[((k - 1) \div n) + 1], elems[((k - 1) % n) + 1]>>]
    IN  SelectSeq(all, LAMBDA pr : IndexOf(elems, pr[1]) <= IndexOf(elems, pr[2]))

\* Block::register_into_relation
register_into_relation(elems) ==
    LET n == Len(elems)
    IN  [k \in 1..(n * n) |-> <<elems[((k - 1) \div n) + 1], elems[((k - 1) % n) + 1]>>]

\* the relation PaigeTarjan::bisimulation collects from p_blocks
RECURSIVE collect_relation(_, _)
collect_relation(bs, p_blocks) ==
    IF p_blocks = <<>> THEN <<>>
    ELSE register_into_relation(bs[Head(p_blocks)].elements)
         \o collect_relation(bs, Tail(p_blocks))

\* a faulty check: compares the processes instead of their blocks
pt_check_by_process(e, ns, p, q) ==
    IF ~e.done THEN [ok |-> FALSE, err |-> "ResultsNotAvailable", value |-> FALSE]
    ELSE IF p \notin Range(e.states) \/ q \notin Range(e.states)
         THEN [ok |-> TRUE, err |-> "", value |-> FALSE]
         ELSE [ok |-> TRUE, err |-> "", value |-> p = q]

\* a faulty check: the lookup of the states comes after the comparison of the arguments
pt_check_equal_first(e, ns, p, q) ==
    IF ~e.done THEN [ok |-> FALSE, err |-> "ResultsNotAvailable", value |-> FALSE]
    ELSE IF p = q THEN [ok |-> TRUE, err |-> "", value |-> TRUE]
    ELSE IF p \notin Range(e.states) \/ q \notin Range(e.states)
         THEN [ok |-> TRUE, err |-> "", value |-> FALSE]
         ELSE [ok |-> TRUE, err |-> "", value |-> ns[p].block_in_p = ns[q].block_in_p]

\* PaigeTarjan::check
pt_check(e, ns, p, q) ==
    IF ~e.done THEN [ok |-> FALSE, err |-> "ResultsNotAvailable", value |-> FALSE]
    ELSE IF p \notin Range(e.states) \/ q \notin Range(e.states)
         THEN [ok |-> TRUE, err |-> "", value |-> FALSE]
         ELSE [ok |-> TRUE, err |-> "", value |-> ns[p].block_in_p = ns[q].block_in_p]

\* a faulty check: answers from the relation whether or not the engine has run
nf_check_unguarded(e, p, q) ==
    [ok |-> TRUE, err |-> "", value |-> <<p, q>> \in Range(e.relation)]

\* NaiveFixpoint::check
nf_check(e, p, q) ==
    IF ~e.done THEN [ok |-> FALSE, err |-> "ResultsNotAvailable", value |-> FALSE]
    ELSE [ok |-> TRUE, err |-> "", value |-> <<p, q>> \in Range(e.relation)]

----------------------------------------------------------------------------
(* ccs.rs: CCSSystem::zip *)

\* a faulty overlap test: only the root of system1 is looked up in system2
overlapping_root_only(system1, system2) ==
    SelectSeq(<<system1.destinct_process>>, LAMBDA n : n \in DOMAIN system2.processes)

\* the first key of system1 that system2 defines too, in the order keys() yields
overlapping(system1, system2) ==
    SelectSeq(HashOrder(DOMAIN system1.processes),
              LAMBDA n : n \in DOMAIN system2.processes)

zip(system1, system2) ==
    IF overlapping(system1, system2) # <<>>
    THEN [ok |-> FALSE, err |-> "OverlappingProcess",
          name |-> Head(overlapping(system1, system2)), system |-> NoSystem]
    ELSE [ok |-> TRUE, err |-> "", name |-> "",
          system |-> CCSSystem(
              [n \in DOMAIN system1.processes \cup DOMAIN system2.processes |->
                  IF n \in DOMAIN system2.processes
                  THEN system2.processes[n] ELSE system1.processes[n]],
              system1.destinct_process)]

----------------------------------------------------------------------------
(* The inputs: the systems a parse can hand to the engines *)

Names == {"A", "B", "C"}
Labels == {"a", "b"}

\* l1.X1 + (l2.X2 + ...), or 0 for no summand
RECURSIVE SumOf(_)
SumOf(q) ==
    IF q = <<>> THEN Deadlock
    ELSE IF Len(q) = 1 THEN Action(q[1][1], ProcessName(q[1][2]))
    ELSE NonDetChoice(Action(q[1][1], ProcessName(q[1][2])), SumOf(Tail(q)))

\* every system over Names whose definitions are sums of at most MaxEdges prefixes
\* in all; the first definition, A, is the root
RECURSIVE EdgeSets(_)
EdgeSets(k) ==
    IF k = 0 THEN {{}}
    ELSE LET smaller == EdgeSets(k - 1)
         IN  smaller \cup {F \cup {e} : F \in smaller, e \in Names \X Labels \X Names}

SmallSystems ==
    {CCSSystem([n \in Names |-> SumOf(HashOrder({<<e[2], e[3]>> : e \in {x \in E : x[1] = n}}))],
               "A") :
        E \in EdgeSets(MaxEdges)}

Def(n, body) == [x \in {n} |-> body]

\* R = (a.0 | a'.0) \ a
SyncSystem ==
    CCSSystem(Def("R", Restriction(Parallel(Action("a", Deadlock), Action("a'", Deadlock)),
                                   "a")), "R")

\* A1 = A[b/a], A = a.0
RenameSystem ==
    CCSSystem(Def("A1", Rename(ProcessName("A"), "b", "a"))
              @@ Def("A", Action("a", Deadlock)), "A1")

\* A = a.B + b.U with B and U undefined
DanglingSystem ==
    CCSSystem(Def("A", NonDetChoice(Action("a", ProcessName("B")),
                                    Action("b", ProcessName("U")))), "A")

\* A = a.A + a.B + a.C + b.B, B = 0, C = a.A + a.B + b.B
BranchingSystem ==
    CCSSystem(Def("A", SumOf(<<<<"a", "A">>, <<"a", "B">>, <<"a", "C">>, <<"b", "B">>>>))
              @@ Def("B", Deadlock)
              @@ Def("C", SumOf(<<<<"a", "A">>, <<"a", "B">>, <<"b", "B">>>>)), "A")

\* A = a.B + a.C, B = a.C, C = a.B: B and C have two predecessors each
DiamondSystem ==
    CCSSystem(Def("A", SumOf(<<<<"a", "B">>, <<"a", "C">>>>))
              @@ Def("B", SumOf(<<<<"a", "C">>>>))
              @@ Def("C", SumOf(<<<<"a", "B">>>>)), "A")

\* systems in which a name occurs in a definition body with no prefix before it:
\* A = A;  A = B, B = A;  A = a.B, B = B + b.A;  A = a.0 | A;  A = B, B = a.A
UnguardedSystems ==
    { CCSSystem(Def("A", ProcessName("A")), "A"),
      CCSSystem(Def("A", ProcessName("B")) @@ Def("B", ProcessName("A")), "A"),
      CCSSystem(Def("A", Action("a", ProcessName("B")))
                @@ Def("B", NonDetChoice(ProcessName("B"), Action("b", ProcessName("A")))),
                "A"),
      CCSSystem(Def("A", Parallel(Action("a", Deadlock), ProcessName("A"))), "A"),
      CCSSystem(Def("A", ProcessName("B")) @@ Def("B", Action("a", ProcessName("A"))), "A") }

\* A = a.C + a.D, C = a.D + a.B, D = a.C + a.B, B = 0: C and D, at distance 1
\* from A, are successors of each other and share the successor B
LayeredSystem ==
    CCSSystem(Def("A", SumOf(<<<<"a", "C">>, <<"a", "D">>>>))
              @@ Def("C", SumOf(<<<<"a", "D">>, <<"a", "B">>>>))
              @@ Def("D", SumOf(<<<<"a", "C">>, <<"a", "B">>>>))
              @@ Def("B", Deadlock), "A")

\* A = a.B + b.C, C = a.B + b.B, B = 0: A and C both reach B by a, only C by b
TwoLabelSystem ==
    CCSSystem(Def("A", SumOf(<<<<"a", "B">>, <<"b", "C">>>>))
              @@ Def("C", SumOf(<<<<"a", "B">>, <<"b", "B">>>>))
              @@ Def("B", Deadlock), "A")

\* A = a.C, C = b.D, D = b.B, B = a.A: a cycle of four states, two with the
\* label a and two with the label b
CycleSystem ==
    CCSSystem(Def("A", SumOf(<<<<"a", "C">>>>))
              @@ Def("C", SumOf(<<<<"b", "D">>>>))
              @@ Def("D", SumOf(<<<<"b", "B">>>>))
              @@ Def("B", SumOf(<<<<"a", "A">>>>)), "A")

Scenarios ==
    {SyncSystem, RenameSystem, DanglingSystem, BranchingSystem, DiamondSystem,
     LayeredSystem, TwoLabelSystem, CycleSystem}
    \cup UnguardedSystems

\* the terms direct_successors is called with: the atoms, every choice and
\* parallel composition of two atoms, and renamings and restrictions of those
Atoms ==
    { Deadlock, ProcessName("A"), ProcessName("B"), ProcessName("Z"),
      Action("a", Deadlock), Action("a'", ProcessName("A")), Action("b", Deadlock) }

Compositions ==
    Atoms \cup {NonDetChoice(x, y) : x \in Atoms, y \in Atoms}
          \cup {Parallel(x, y) : x \in Atoms, y \in Atoms}

Terms ==
    Compositions \cup {Rename(x, "b", "a") : x \in Compositions}
                 \cup {Restriction(x, "a") : x \in Compositions}
                 \cup {Restriction(Rename(x, "a", "b"), "a'") : x \in Compositions}

\* the systems handed to zip
ZipSystems ==
    { CCSSystem(Def("A", Action("a", Deadlock)), "A"),
      CCSSystem(Def("B", Action("a", Deadlock)), "B"),
      CCSSystem(Def("A", Action("a", Action("b", Deadlock))), "A"),
      CCSSystem(Def("B", NonDetChoice(Action("a", Deadlock),
                                      Action("a", Action("b", Deadlock)))), "B"),
      CCSSystem(Def("A", Action("a", ProcessName("B"))), "A"),
      CCSSystem(Def("B", Action("a", ProcessName("B"))), "B"),
      CCSSystem(Def("P", Action("up", ProcessName("P1")))
                @@ Def("P1", Action("down", ProcessName("P"))), "P"),
      CCSSystem(Def("Q", Action("up", Action("down", ProcessName("Q"))))
                @@ Def("B", Deadlock), "Q") }

----------------------------------------------------------------------------
(* bisimilarity/list.rs: RcList.  The operators take and return a heap
   h = [lists, links, panic]; 0 stands for None. *)

Elems == 1..MaxElems

ListIds == {1, 2}

\* ListRef::new
ListRef_new == [next |-> 0, prev |-> 0]

\* RcList::new
RcList_new == [head |-> 0, tail |-> 0, size |-> 0]

\* usize arithmetic wraps modulo 2^64 where overflow checks are off; the model
\* keeps 8 bits
USIZE_MODULUS == 256

\* a faulty append: the prev link of the new tail is not set
RcList_append_no_prev(h, l, e) ==
    LET prev_tail == h.lists[l].tail
        h1 == [h EXCEPT !.lists[l].tail = e]
        h2 == IF prev_tail # 0 THEN [h1 EXCEPT !.links[prev_tail].next = e]
              ELSE [h1 EXCEPT !.lists[l].head = e]
    IN  [h2 EXCEPT !.links[e].next = 0,
                   !.lists[l].size = @ + 1]

\* RcList::append
RcList_append(h, l, e) ==
    LET prev_tail == h.lists[l].tail
        h1 == [h EXCEPT !.lists[l].tail = e]
        h2 == IF prev_tail # 0 THEN [h1 EXCEPT !.links[prev_tail].next = e]
              ELSE [h1 EXCEPT !.lists[l].head = e]
    IN  [h2 EXCEPT !.links[e].next = 0,
                   !.links[e].prev = prev_tail,
                   !.lists[l].size = @ + 1]

\* RcList::remove, the assertion that follows take_next and take_prev
remove_asserted(h, l, e) ==
    h.links[e].next # 0 \/ h.links[e].prev # 0 \/ h.lists[l].size = 1

\* RcList::remove; where the size underflows, checked is the build's choice
\* between the overflow panic and wrapping
RcList_remove(h, l, e, checked) ==
    LET next_opt == h.links[e].next
        prev_opt == h.links[e].prev
        h1 == [h EXCEPT !.links[e] = ListRef_new]
        h2 == IF next_opt # 0
              THEN IF prev_opt # 0
                   THEN [h1 EXCEPT !.links[prev_opt].next = next_opt,
                                   !.links[next_opt].prev = prev_opt]
                   ELSE [h1 EXCEPT !.lists[l].head = next_opt,
                                   !.links[next_opt].prev = 0]
              ELSE IF prev_opt # 0
                   THEN [h1 EXCEPT !.lists[l].tail = prev_opt,
                                   !.links[prev_opt].next = 0]
                   ELSE [h1 EXCEPT !.lists[l].tail = 0,
                                   !.lists[l].head = 0]
    IN  IF ~remove_asserted(h, l, e) THEN [h1 EXCEPT !.panic = TRUE]
        ELSE IF h.lists[l].size = 0 /\ checked THEN [h2 EXCEPT !.panic = TRUE]
        ELSE [h2 EXCEPT !.lists[l].size = (@ - 1) % USIZE_MODULUS]

\* RcList::peek_front
RcList_peek_front(h, l) == h.lists[l].head

\* RcList::pop_front: the heap after it; peek_front is what it returns
RcList_pop_front(h, l) ==
    IF RcList_peek_front(h, l) = 0 THEN h
    ELSE RcList_remove(h, l, RcList_peek_front(h, l), TRUE)

\* RcListIterator::next, repeated from cur until None; an iteration that has
\* yielded more than MaxElems items is on a cycle and is cut there
RECURSIVE iterate(_, _, _)
iterate(lk, cur, yieldedSoFar) ==
    IF cur = 0 \/ yieldedSoFar > MaxElems THEN <<>>
    ELSE <<cur>> \o iterate(lk, lk[cur].next, yieldedSoFar + 1)

\* RcList::iter, collected
RcList_iter(h, l) == iterate(h.links, h.lists[l].head, 0)

\* RcList::len
RcList_len(h, l) == h.lists[l].size

----------------------------------------------------------------------------
(* State machine *)

NoRet == [call |-> "none"]

NoIter == [kind |-> "none"]

Heap == [pt |-> pt, blocks |-> blocks, nodes |-> nodes, trans |-> trans,
         cells |-> cells, panic |-> FALSE]

\* store a heap back; a failed unwrap or assert ends the run
Install(h, next) ==
    /\ pt' = h.pt
    /\ blocks' = h.blocks
    /\ nodes' = h.nodes
    /\ trans' = h.trans
    /\ cells' = h.cells
    /\ pc' = IF h.panic THEN "panic" ELSE next

Init ==
    /\ pc = "main"
    /\ \/ sys1 \in SmallSystems \cup Scenarios /\ sys2 = NoSystem
       \/ sys1 \in ZipSystems /\ sys2 \in ZipSystems
    /\ system = NoSystem
    /\ ret = NoRet
    /\ nf = NoNaive
    /\ pt = NoPaigeTarjan
    /\ blocks = <<>>
    /\ nodes = <<>>
    /\ trans = <<>>
    /\ cells = <<>>
    /\ frame = NoFrame
    /\ iter = NoIter
    /\ yielded = <<>>
    /\ lists = <<>>
    /\ links = <<>>

\* main.rs bisimilarity: one file, or two files zipped
Load ==
    /\ pc = "main"
    /\ IF sys2 = NoSystem
       THEN /\ system' = sys1
            /\ ret' = NoRet
            /\ pc' = "start"
       ELSE LET r == zip(sys1, sys2)
            IN  /\ system' = r.system
                /\ ret' = [call |-> "zip", ok |-> r.ok, err |-> r.err, name |-> r.name]
                /\ pc' = IF r.ok THEN "start" ELSE "exit"
    /\ UNCHANGED <<lists, links, sys1, sys2, nf, pt, blocks, nodes, trans, cells, frame, iter, yielded>>

\* bisimulation_algorithm(lts, PaigeTarjan)
NewPaigeTarjan ==
    /\ pc = "start"
    /\ IF explore_overflows(system, {ProcessName(system.destinct_process)})
       THEN /\ pc' \in StackOverflow
            /\ UNCHANGED <<pt, blocks, nodes, trans, cells>>
       ELSE /\ \E labelVec \in VecOrders(LabelsOf(system)) :
                  \E e \in {new_with_labels(system, labelVec)} :
                      /\ pt' = e.pt
                      /\ blocks' = e.blocks
                      /\ nodes' = e.nodes
                      /\ trans' = e.trans
                      /\ cells' = e.cells
            /\ pc' = "pt_new"
    /\ ret' = NoRet
    /\ UNCHANGED <<lists, links, sys1, sys2, system, nf, frame, iter, yielded>>

\* a faulty entry of PaigeTarjan::bisimulation: no assertion on done
PTBisimulation_unasserted ==
    /\ pc \in {"pt_new", "pt_done"}
    /\ pc' = "pt_loop"
    /\ ret' = NoRet
    /\ UNCHANGED <<lists, links, sys1, sys2, system, nf, pt, blocks, nodes, trans, cells, frame, iter, yielded>>

\* PaigeTarjan::bisimulation, entry: the first call on a new engine, or a
\* further call on an engine whose bisimulation() has returned.  A failed
\* assert! panics: the call returns nothing and the driver goes no further.
PTBisimulation ==
    /\ pc \in {"pt_new", "pt_done"}
    /\ pc' = IF pt.done THEN "panic" ELSE "pt_loop"
    /\ ret' = IF pt.done THEN [call |-> "panic", engine |-> "pt"] ELSE NoRet
    /\ UNCHANGED <<lists, links, sys1, sys2, system, nf, pt, blocks, nodes, trans, cells, frame, iter, yielded>>

\* refine, steps 1 and 2
RefineSelect ==
    /\ pc = "pt_loop"
    /\ ~finished(pt)
    /\ \E h \in {select_divider(Heap)} :
          /\ Install(h, "pt_label")
          /\ frame' = IF h.panic THEN NoFrame
                       ELSE [NoFrame EXCEPT !.divider = Head(pt.c_blocks),
                                            !.b = smaller_child(Heap, Head(pt.c_blocks)),
                                            !.label = 1]
    /\ UNCHANGED <<lists, links, sys1, sys2, system, ret, nf, iter, yielded>>

\* refine, step 3 for the next label
RefinePredecessors ==
    /\ pc = "pt_label"
    /\ frame.label <= Len(pt.labels)
    /\ \E b_prime \in {blocks[frame.b].elements} :
       \E r \in {calc_predecessors(Heap,
                    in_transitions_of(Heap, b_prime, pt.labels[frame.label]), <<>>)} :
           /\ Install(r.h, "pt_split1")
           /\ frame' = [frame EXCEPT !.b_prime = b_prime, !.pred_b = r.out,
                                     !.limited_pred_b = <<>>]
    /\ UNCHANGED <<lists, links, sys1, sys2, system, ret, nf, iter, yielded>>

\* refine, step 4
RefineSplit ==
    /\ pc = "pt_split1"
    /\ \E h \in {split(Heap, frame.pred_b)} : Install(h, "pt_limited")
    /\ UNCHANGED <<lists, links, sys1, sys2, system, ret, nf, frame, iter, yielded>>

\* refine, step 5
RefineLimited ==
    /\ pc = "pt_limited"
    /\ \E r \in {calc_limited_predecessors(Heap,
                    in_transitions_of(Heap, frame.b_prime, pt.labels[frame.label]), <<>>)} :
           /\ Install(r.h, "pt_split2")
           /\ frame' = [frame EXCEPT !.limited_pred_b = r.out]
    /\ UNCHANGED <<lists, links, sys1, sys2, system, ret, nf, iter, yielded>>

\* refine, step 6
RefineSplitLimited ==
    /\ pc = "pt_split2"
    /\ \E h \in {split(Heap, frame.limited_pred_b)} : Install(h, "pt_cleanup")
    /\ UNCHANGED <<lists, links, sys1, sys2, system, ret, nf, frame, iter, yielded>>

\* refine, step 7
RefineCleanup ==
    /\ pc = "pt_cleanup"
    /\ \E h \in {update_counters(Heap,
                    in_transitions_of(Heap, frame.b_prime, pt.labels[frame.label]))} :
       \E g \in {IF h.panic THEN h ELSE cleanup_markers(h, frame.b_prime)} :
           Install(g, "pt_label")
    /\ frame' = [frame EXCEPT !.label = @ + 1]
    /\ UNCHANGED <<lists, links, sys1, sys2, system, ret, nf, iter, yielded>>

\* refine returns after the last label
RefineReturn ==
    /\ pc = "pt_label"
    /\ frame.label > Len(pt.labels)
    /\ pc' = "pt_loop"
    /\ frame' = NoFrame
    /\ UNCHANGED <<lists, links, sys1, sys2, system, ret, nf, pt, blocks, nodes, trans, cells, iter, yielded>>

\* PaigeTarjan::bisimulation, after the loop
PTReturn ==
    /\ pc = "pt_loop"
    /\ finished(pt)
    /\ pt' = [pt EXCEPT !.done = TRUE]
    /\ \E collect \in BOOLEAN :
          ret' = [call |-> "bisimulation", engine |-> "pt", collected |-> collect,
                  relation |-> IF collect THEN collect_relation(blocks, pt.p_blocks)
                               ELSE <<>>]
    /\ pc' = "pt_done"
    /\ UNCHANGED <<lists, links, sys1, sys2, system, nf, blocks, nodes, trans, cells, frame, iter, yielded>>

\* bisimulation_algorithm(lts, Naive)
NewNaiveFixpoint ==
    /\ pc \in {"start", "pt_done"}
    /\ IF explore_overflows(system, {ProcessName(system.destinct_process)})
       THEN /\ pc' \in StackOverflow
            /\ UNCHANGED nf
       ELSE /\ nf' = NaiveFixpointNew(system)
            /\ pc' = "nf_new"
    /\ ret' = NoRet
    /\ UNCHANGED <<lists, links, sys1, sys2, system, pt, blocks, nodes, trans, cells, frame, iter, yielded>>

\* NaiveFixpoint::bisimulation, entry: the first call on a new engine, or a
\* further call on an engine whose bisimulation() has returned
NFBisimulation ==
    /\ pc \in {"nf_new", "nf_done"}
    /\ pc' = IF nf.done THEN "panic" ELSE "nf_loop"
    /\ nf' = IF nf.done THEN nf ELSE [nf EXCEPT !.last_size = Len(nf.relation) + 1]
    /\ ret' = IF nf.done THEN [call |-> "panic", engine |-> "naive"] ELSE NoRet
    /\ UNCHANGED <<lists, links, sys1, sys2, system, pt, blocks, nodes, trans, cells, frame, iter, yielded>>

\* one round of the loop of NaiveFixpoint::bisimulation
NFRefine ==
    /\ pc = "nf_loop"
    /\ Len(nf.relation) < nf.last_size
    /\ nf' = [nf EXCEPT !.last_size = Len(nf.relation), !.relation = apply_f(nf),
                        !.rounds = @ + 1]
    /\ UNCHANGED <<lists, links, pc, sys1, sys2, system, ret, pt, blocks, nodes, trans, cells, frame, iter, yielded>>

\* NaiveFixpoint::bisimulation, after the loop
NFReturn ==
    /\ pc = "nf_loop"
    /\ ~(Len(nf.relation) < nf.last_size)
    /\ nf' = [nf EXCEPT !.done = TRUE]
    /\ \E collect \in BOOLEAN :
          ret' = [call |-> "bisimulation", engine |-> "naive", collected |-> collect,
                  relation |-> IF collect THEN nf.relation ELSE <<>>]
    /\ pc' = "nf_done"
    /\ UNCHANGED <<lists, links, sys1, sys2, system, pt, blocks, nodes, trans, cells, frame, iter, yielded>>

\* main.rs states: for state in lts.states(false)
NewStates ==
    /\ pc = "start"
    /\ sys2 = NoSystem
    /\ iter' = [kind |-> "states", it |-> LtsStates(system)]
    /\ yielded' = <<>>
    /\ pc' = "lts_loop"
    /\ ret' = NoRet
    /\ UNCHANGED <<lists, links, sys1, sys2, system, nf, pt, blocks, nodes, trans, cells, frame>>

\* main.rs lts: for (p, a, q) in lts.transitions(false)
NewTransitions ==
    /\ pc = "start"
    /\ sys2 = NoSystem
    /\ iter' = [kind |-> "transitions", it |-> LtsTransitions(system)]
    /\ yielded' = <<>>
    /\ pc' = "lts_loop"
    /\ ret' = NoRet
    /\ UNCHANGED <<lists, links, sys1, sys2, system, nf, pt, blocks, nodes, trans, cells, frame>>

\* main.rs trace: for trace in lts.traces(false)
NewTraces ==
    /\ pc = "start"
    /\ sys2 = NoSystem
    /\ iter' = [kind |-> "traces", it |-> LtsTraces(system)]
    /\ yielded' = <<>>
    /\ pc' = "lts_loop"
    /\ ret' = NoRet
    /\ UNCHANGED <<lists, links, sys1, sys2, system, nf, pt, blocks, nodes, trans, cells, frame>>

\* one turn of the for loop: the iterator's next() returned r, the body keeps
\* Some(item) and the loop ends on None; next() does not return when a
\* direct_successors call in it exhausts the stack
Turn(overflow, r) ==
    IF overflow
    THEN /\ pc' \in StackOverflow
         /\ ret' = [call |-> "next", overflow |-> TRUE, some |-> FALSE]
         /\ UNCHANGED <<iter, yielded>>
    ELSE /\ iter' = [iter EXCEPT !.it = r.it]
         /\ yielded' = IF r.some THEN Append(yielded, r.item) ELSE yielded
         /\ pc' = IF r.some THEN "lts_loop" ELSE "lts_done"
         /\ ret' = [call |-> "next", overflow |-> FALSE, some |-> r.some]

\* LtsStateIterator::next called by the loop
StatesNext ==
    /\ pc = "lts_loop"
    /\ iter.kind = "states"
    /\ \E overflow \in {next_overflows(iter.it, system, "states")} :
          IF overflow THEN Turn(TRUE, [some |-> FALSE, it |-> iter.it])
          ELSE \E r \in {LtsStateIteratorNext(iter.it, system)} : Turn(FALSE, r)
    /\ UNCHANGED <<lists, links, sys1, sys2, system, nf, pt, blocks, nodes, trans, cells, frame>>

\* LtsTransitionIterator::next called by the loop
TransitionsNext ==
    /\ pc = "lts_loop"
    /\ iter.kind = "transitions"
    /\ \E overflow \in {next_overflows(iter.it, system, "transitions")} :
          IF overflow THEN Turn(TRUE, [some |-> FALSE, it |-> iter.it])
          ELSE \E r \in {LtsTransitionIteratorNext(iter.it, system)} : Turn(FALSE, r)
    /\ UNCHANGED <<lists, links, sys1, sys2, system, nf, pt, blocks, nodes, trans, cells, frame>>

\* LtsTraceIterator::next called by the loop
TracesNext ==
    /\ pc = "lts_loop"
    /\ iter.kind = "traces"
    /\ Len(yielded) < MaxTraces
    /\ \E overflow \in {next_overflows(iter.it, system, "traces")} :
          IF overflow THEN Turn(TRUE, [some |-> FALSE, it |-> iter.it])
          ELSE \E r \in {LtsTraceIteratorNext(iter.it, system)} : Turn(FALSE, r)
    /\ UNCHANGED <<lists, links, sys1, sys2, system, nf, pt, blocks, nodes, trans, cells, frame>>

\* Process::direct_successors called on a term; the call does not return
\* when the recursion comes back to a name it is resolving
CallDirectSuccessors ==
    /\ pc = "start"
    /\ sys2 = NoSystem
    /\ \E t \in Terms :
          IF overflows(t, system, {})
          THEN /\ pc' \in StackOverflow
               /\ ret' = [call |-> "direct_successors", term |-> t,
                          returned |-> FALSE, set |-> {}]
          ELSE /\ pc' = "succ_done"
               /\ ret' = [call |-> "direct_successors", term |-> t,
                          returned |-> TRUE, set |-> direct_successors(t, system)]
    /\ UNCHANGED <<lists, links, sys1, sys2, system, nf, pt, blocks, nodes, trans, cells, frame,
                   iter, yielded>>

\* a process that is no state of any input
Missing == Action("b", ProcessName("Z"))

\* the processes check is called with
Queried ==
    (IF pt.built THEN Range(pt.states) ELSE DOMAIN nf.state_map)
    \cup {Missing, ProcessName(sys2.destinct_process)}

\* PaigeTarjan::check, called between the calls of the driver.  A check writes
\* nothing but its result, so a check that follows a check reaches no state the
\* first one does not reach; only the first of a row is taken.
PTCheck ==
    /\ pc \in {"pt_new", "pt_done", "nf_new", "nf_done"}
    /\ pt.built
    /\ ret.call # "check"
    /\ \E p \in Queried, q \in Queried :
          LET r == pt_check(pt, nodes, p, q)
          IN  ret' = [call |-> "check", engine |-> "pt", p |-> p, q |-> q,
                      ok |-> r.ok, err |-> r.err, value |-> r.value]
    /\ UNCHANGED <<lists, links, pc, sys1, sys2, system, nf, pt, blocks, nodes, trans, cells, frame, iter, yielded>>

\* NaiveFixpoint::check, called between the calls of the driver
NFCheck ==
    /\ pc \in {"nf_new", "nf_done"}
    /\ ret.call # "check"
    /\ \E p \in Queried, q \in Queried :
          LET r == nf_check(nf, p, q)
          IN  ret' = [call |-> "check", engine |-> "naive", p |-> p, q |-> q,
                      ok |-> r.ok, err |-> r.err, value |-> r.value]
    /\ UNCHANGED <<lists, links, pc, sys1, sys2, system, nf, pt, blocks, nodes, trans, cells, frame, iter, yielded>>

\* main.rs bisimilarity, the verdict on two files: are the two roots related?
\* (the comparison of the two engines returns before it)
Verdict ==
    /\ pc \in {"pt_done", "nf_done"}
    /\ ~(pt.built /\ nf.built)
    /\ sys2 # NoSystem
    /\ ret.call = "bisimulation"
    /\ ret.collected
    /\ ret' = [call |-> "verdict",
               bisimilar |-> <<ProcessName(sys1.destinct_process),
                               ProcessName(sys2.destinct_process)>> \in Range(ret.relation)]
    /\ pc' = "end"
    /\ UNCHANGED <<lists, links, sys1, sys2, system, nf, pt, blocks, nodes, trans, cells, frame, iter, yielded>>

----------------------------------------------------------------------------
(* The list driver: two RcLists built over the same link field of MaxElems
   elements.  The driver is at "list" while every append was of an element
   that was in neither list and every remove of a member of the list. *)

ListHeap == [lists |-> lists, links |-> links, panic |-> FALSE]

\* the elements iter() reaches in list l
Members(l) == Range(RcList_iter(ListHeap, l))

InstallList(h, next) ==
    /\ lists' = h.lists
    /\ links' = h.links
    /\ pc' = IF h.panic THEN "panic" ELSE next

\* RcList::new for both lists, ListRef::new for every element
ListNew ==
    /\ pc = "main"
    /\ lists' = [l \in ListIds |-> RcList_new]
    /\ links' = [e \in Elems |-> ListRef_new]
    /\ pc' = "list"
    /\ ret' = NoRet
    /\ UNCHANGED <<sys1, sys2, system, nf, pt, blocks, nodes, trans, cells, frame,
                   iter, yielded>>

\* what a call on list l with the element e leaves in ret: old is the heap
\* before the call
ListRet(call, l, e, h) ==
    [call |-> call, list |-> l, e |-> e, panicked |-> h.panic,
     old |-> [lists |-> lists, links |-> links]]

\* append of an element that is in neither list
ListAppend ==
    /\ pc = "list"
    /\ \E l \in ListIds : \E e \in Elems \ UNION {Members(k) : k \in ListIds} :
          \E h \in {RcList_append(ListHeap, l, e)} :
              /\ InstallList(h, "list")
              /\ ret' = ListRet("append", l, e, h)
    /\ UNCHANGED <<sys1, sys2, system, nf, pt, blocks, nodes, trans, cells, frame,
                   iter, yielded>>

\* append of an element that is a member of one of the lists
ListAppendMember ==
    /\ pc = "list"
    /\ \E l \in ListIds : \E e \in UNION {Members(k) : k \in ListIds} :
          \E h \in {RcList_append(ListHeap, l, e)} :
              /\ InstallList(h, "list_misused")
              /\ ret' = ListRet("append", l, e, h)
    /\ UNCHANGED <<sys1, sys2, system, nf, pt, blocks, nodes, trans, cells, frame,
                   iter, yielded>>

\* remove of a member of the list
ListRemove ==
    /\ pc = "list"
    /\ \E l \in ListIds : \E e \in Members(l) :
          \E h \in {RcList_remove(ListHeap, l, e, TRUE)} :
              /\ InstallList(h, "list")
              /\ ret' = ListRet("remove", l, e, h)
    /\ UNCHANGED <<sys1, sys2, system, nf, pt, blocks, nodes, trans, cells, frame,
                   iter, yielded>>

\* remove of an element that is not a member of the list
ListRemoveOther ==
    /\ pc = "list"
    /\ \E l \in ListIds : \E e \in Elems \ Members(l) : \E checked \in BOOLEAN :
          \E h \in {RcList_remove(ListHeap, l, e, checked)} :
              /\ InstallList(h, "list_misused")
              /\ ret' = ListRet("remove", l, e, h)
    /\ UNCHANGED <<sys1, sys2, system, nf, pt, blocks, nodes, trans, cells, frame,
                   iter, yielded>>

\* pop_front; e is the element returned, 0 for None
ListPopFront ==
    /\ pc = "list"
    /\ \E l \in ListIds :
          \E h \in {RcList_pop_front(ListHeap, l)} :
              /\ InstallList(h, "list")
              /\ ret' = ListRet("pop_front", l, RcList_peek_front(ListHeap, l), h)
    /\ UNCHANGED <<sys1, sys2, system, nf, pt, blocks, nodes, trans, cells, frame,
                   iter, yielded>>

----------------------------------------------------------------------------
(* Specifications *)

Next ==
    \/ Load
    \/ NewPaigeTarjan
    \/ PTBisimulation
    \/ RefineSelect
    \/ RefinePredecessors
    \/ RefineSplit
    \/ RefineLimited
    \/ RefineSplitLimited
    \/ RefineCleanup
    \/ RefineReturn
    \/ PTReturn
    \/ NewNaiveFixpoint
    \/ NFBisimulation
    \/ NFRefine
    \/ NFReturn
    \/ PTCheck
    \/ NFCheck
    \/ Verdict

Spec == Init /\ [][Next]_vars

\* main.rs states, lts and trace: one file is loaded and one iterator is run
\* to its end
\* the Paige-Tarjan engine alone: built, run, and called once more
PTNext ==
    \/ Load
    \/ NewPaigeTarjan
    \/ PTBisimulation
    \/ RefineSelect
    \/ RefinePredecessors
    \/ RefineSplit
    \/ RefineLimited
    \/ RefineSplitLimited
    \/ RefineCleanup
    \/ RefineReturn
    \/ PTReturn

\* the steps of one bisimulation() call
PTRun ==
    \/ RefineSelect
    \/ RefinePredecessors
    \/ RefineSplit
    \/ RefineLimited
    \/ RefineSplitLimited
    \/ RefineCleanup
    \/ RefineReturn
    \/ PTReturn

\* bisimulation() is sequential code: once called, it takes its next step
\* while it has one
PTSpec == Init /\ [][PTNext]_vars /\ WF_vars(PTRun)

\* the naive engine alone: built, run, and called once more
NFNext ==
    \/ Load
    \/ NewNaiveFixpoint
    \/ NFBisimulation
    \/ NFRefine
    \/ NFReturn

\* bisimulation() is sequential code: once called, it takes its next step
\* while it has one
NFSpec == Init /\ [][NFNext]_vars /\ WF_vars(NFRefine \/ NFReturn)

\* direct_successors alone, on the scenario systems
SuccInit == Init /\ sys1 \in Scenarios /\ sys2 = NoSystem

SuccNext ==
    \/ Load
    \/ CallDirectSuccessors

SuccSpec == SuccInit /\ [][SuccNext]_vars

\* the operations of RcList alone
ListInit == Init /\ sys1 = SyncSystem /\ sys2 = NoSystem

ListNext ==
    \/ ListNew
    \/ ListAppend
    \/ ListAppendMember
    \/ ListRemove
    \/ ListRemoveOther
    \/ ListPopFront

ListSpec == ListInit /\ [][ListNext]_vars

LtsNext ==
    \/ Load
    \/ NewStates
    \/ NewTransitions
    \/ NewTraces
    \/ StatesNext
    \/ TransitionsNext
    \/ TracesNext

\* the for loop is sequential code: once entered, it calls next() until
\* next() returns None
LtsSpec ==
    Init /\ [][LtsNext]_vars /\ WF_vars(StatesNext \/ TransitionsNext \/ TracesNext)

----------------------------------------------------------------------------
(* Strong bisimilarity, from the transition relation of ccs.rs alone *)

\* the processes reachable from the given ones
RECURSIVE ReachableFrom(_, _)
ReachableFrom(s, seen) ==
    LET more == seen \cup {x[2] : x \in UNION {direct_successors(p, s) : p \in seen}}
    IN  IF more = seen THEN seen ELSE ReachableFrom(s, more)

Reachable(s) == ReachableFrom(s, {ProcessName(s.destinct_process)})

\* the transfer condition of the pair (p, q) with respect to R
Transfer(s, R, p, q) ==
    /\ \A x \in direct_successors(p, s) : \E y \in direct_successors(q, s) :
          x[1] = y[1] /\ <<x[2], y[2]>> \in R
    /\ \A y \in direct_successors(q, s) : \E x \in direct_successors(p, s) :
          x[1] = y[1] /\ <<x[2], y[2]>> \in R

IsBisimulation(s, R) == \A pr \in R : Transfer(s, R, pr[1], pr[2])

\* the greatest bisimulation below R: drop the pairs that fail the transfer
\* condition until none does
RECURSIVE GreatestBisimulation(_, _)
GreatestBisimulation(s, R) ==
    LET kept == {pr \in R : Transfer(s, R, pr[1], pr[2])}
    IN  IF kept = R THEN R ELSE GreatestBisimulation(s, kept)

\* strong bisimilarity on the set S of processes
Bisimilarity(s, S) == GreatestBisimulation(s, S \X S)

SameBlock(p, q) == nodes[p].block_in_p = nodes[q].block_in_p

----------------------------------------------------------------------------
(* Properties *)

\* C1: once PaigeTarjan::bisimulation has completed, two reachable states are in the
\* same block of P exactly when they are strongly bisimilar, whatever the label order
C1_Statement ==
    pt.done =>
        LET S == Reachable(system)
            sim == Bisimilarity(system, S)
        IN  \A p, q \in S : SameBlock(p, q) <=> <<p, q>> \in sim

\* C2: the relation NaiveFixpoint::bisimulation(true) returns and the relation
\* PaigeTarjan::bisimulation(true) returns for the same LTS hold the same pairs and
\* have the same number of entries
C2_Statement ==
    (pt.done /\ pc = "nf_done" /\ ret.call = "bisimulation" /\ ret.collected) =>
        /\ Range(ret.relation) = Range(collect_relation(blocks, pt.p_blocks))
        /\ Len(ret.relation) = Len(collect_relation(blocks, pt.p_blocks))

\* C3: the relation the naive engine ends with is the greatest bisimulation on the
\* reachable states: each of its pairs meets the transfer condition with respect to
\* it, and every relation on the reachable states that does is a subset of it
C3_NaiveIsGreatestBisimulation ==
    (pc = "nf_done" /\ ret.call = "bisimulation") =>
        LET R == Range(nf.relation)
            S == Reachable(system)
        IN  /\ R \subseteq S \X S
            /\ IsBisimulation(system, R)
            /\ \A X \in SUBSET (S \X S) : IsBisimulation(system, X) => X \subseteq R

\* C4: the relation either engine collects is reflexive, symmetric and transitive
\* on the reachable states
C4_RelationIsEquivalence ==
    (ret.call = "bisimulation" /\ ret.collected) =>
        LET R == Range(ret.relation)
            S == Reachable(system)
        IN  /\ R \subseteq S \X S
            /\ \A p \in S : <<p, p>> \in R
            /\ \A pr \in R : <<pr[2], pr[1]>> \in R
            /\ \A pr \in R, qr \in R : pr[2] = qr[1] => <<pr[1], qr[2]>> \in R

\* C5: from construction to termination, after new_with_labels, after every split
\* and after every refine, two strongly bisimilar states are in the same block of P
C5_Statement ==
    pt.built =>
        LET S == Reachable(system)
            sim == Bisimilarity(system, S)
        IN  \A p, q \in S : <<p, q>> \in sim => SameBlock(p, q)

\* C6: after zip of two systems with disjoint names and a run of an engine, the pair
\* of the two roots is in the relation exactly when the roots are strongly bisimilar
C6_Statement ==
    ret.call = "verdict" =>
        LET root1 == ProcessName(sys1.destinct_process)
            root2 == ProcessName(sys2.destinct_process)
            S == ReachableFrom(system, {root1, root2})
        IN  ret.bisimilar <=> <<root1, root2>> \in Bisimilarity(system, S)

\* C7: after PaigeTarjan::bisimulation(true), for reachable p and q, check(p, q) is
\* Ok(true) exactly when p and q are in the same block of P, and exactly when (p, q)
\* is in the relation that was returned
C7_CheckAgreesWithBlocksAndRelation ==
    (ret.call = "check" /\ ret.engine = "pt" /\ pt.done
        /\ ret.p \in Reachable(system) /\ ret.q \in Reachable(system)) =>
        /\ ret.ok
        /\ ret.value <=> SameBlock(ret.p, ret.q)
        /\ ret.value <=> <<ret.p, ret.q>> \in Range(collect_relation(blocks, pt.p_blocks))

\* the engine a check was made on has completed bisimulation()
CheckedEngineDone == IF ret.engine = "pt" THEN pt.done ELSE nf.done

\* C8: a check made before bisimulation() has completed returns the
\* results-not-available error, whatever p and q, and leaves the relation, the
\* partition and done as they were; a check made after it never returns that error
C8_CheckBeforeAndAfterCompletion ==
    [][ret'.call = "check" =>
          /\ UNCHANGED <<nf, pt, blocks, nodes, trans, cells>>
          /\ IF CheckedEngineDone'
             THEN ret'.ok /\ ret'.err # "ResultsNotAvailable"
             ELSE ~ret'.ok /\ ret'.err = "ResultsNotAvailable"]_vars

\* the states of the LTS the engines explored
Explored == Range(StatesOf(system))

\* C9: after completion, check(p, q) returns Ok(false) whenever p or q is no state
\* of the explored LTS, check(p, p) included, in both engines
C9_CheckOfUnknownProcess ==
    (ret.call = "check" /\ CheckedEngineDone
        /\ (ret.p \notin Explored \/ ret.q \notin Explored)) =>
        ret.ok /\ ~ret.value

\* C10: zip returns the overlapping-process error exactly when some name is defined
\* in both systems; otherwise it returns the union of the two tables with the root
\* of the first system
C10_Zip ==
    ret.call = "zip" =>
        LET names1 == DOMAIN sys1.processes
            names2 == DOMAIN sys2.processes
        IN  IF names1 \cap names2 # {}
            THEN ~ret.ok /\ ret.err = "OverlappingProcess"
            ELSE /\ ret.ok
                 /\ DOMAIN system.processes = names1 \cup names2
                 /\ \A n \in names1 : system.processes[n] = sys1.processes[n]
                 /\ \A n \in names2 : system.processes[n] = sys2.processes[n]
                 /\ system.destinct_process = sys1.destinct_process

----------------------------------------------------------------------------
(* States in which the cases of the properties occur *)

\* the naive engine has returned a relation that relates two different states and
\* leaves two reachable states unrelated
C3_Reached ==
    /\ pc = "nf_done" /\ ret.call = "bisimulation"
    /\ \E pr \in Range(nf.relation) : pr[1] # pr[2]
    /\ (Reachable(system) \X Reachable(system)) \ Range(nf.relation) # {}

\* Paige-Tarjan has returned a collected relation that relates two different states
C4_Reached ==
    /\ ret.call = "bisimulation" /\ ret.collected /\ ret.engine = "pt"
    /\ \E pr \in Range(ret.relation) : pr[1] # pr[2]
    /\ Cardinality(Reachable(system)) = 3

\* check has answered Ok(true) for two different reachable states after Paige-Tarjan
C7_Reached ==
    /\ ret.call = "check" /\ ret.engine = "pt" /\ pt.done
    /\ ret.p \in Reachable(system) /\ ret.q \in Reachable(system)
    /\ ret.p # ret.q /\ ret.ok /\ ret.value

\* the naive engine, built after Paige-Tarjan has completed, was asked before its
\* own run and has refused
C8_Reached ==
    /\ ret.call = "check" /\ ret.engine = "naive"
    /\ pt.done /\ ~nf.done
    /\ ~ret.ok /\ ret.err = "ResultsNotAvailable"

\* a completed Paige-Tarjan engine was asked check(p, p) for a process it never saw
C9_Reached ==
    /\ ret.call = "check" /\ ret.engine = "pt" /\ pt.done
    /\ ret.p = ret.q /\ ret.p \notin Explored
    /\ ret.ok /\ ~ret.value

\* zip has merged two systems of which the second defines two names
C10_Reached ==
    /\ ret.call = "zip" /\ ret.ok
    /\ Cardinality(DOMAIN sys2.processes) = 2
    /\ Cardinality(DOMAIN system.processes) = 3

----------------------------------------------------------------------------
(* The explorer *)

\* no element occurs twice in the sequence
NoDuplicates(q) == \A i, j \in DOMAIN q : q[i] = q[j] => i = j

\* the transitions of the LTS: every successor of every reachable term
ReachableTransitions(s) ==
    UNION {{<<p, x[1], x[2]>> : x \in direct_successors(p, s)} : p \in Reachable(s)}

\* C11: the states iterator (allow_duplicates = false) never yields a term
\* twice, and when it has ended it has yielded exactly the terms reachable
\* from Name(root)
C11_Statement ==
    iter.kind = "states" /\ pc \in {"lts_loop", "lts_done"} =>
        /\ NoDuplicates(yielded)
        /\ pc = "lts_done" => Range(yielded) = Reachable(system)

\* C12: the transitions iterator (allow_duplicates = false) never yields a
\* triple twice, and when it has ended it has yielded exactly the triples
\* (p, a, q) with p reachable from Name(root) and (a, q) a successor of p
C12_Statement ==
    iter.kind = "transitions" /\ pc \in {"lts_loop", "lts_done"} =>
        /\ NoDuplicates(yielded)
        /\ pc = "lts_done" => Range(yielded) = ReachableTransitions(system)

\* the lengths of the sequences of q never decrease along q
NonDecreasingLength(q) == \A i, j \in DOMAIN q : i <= j => Len(q[i]) <= Len(q[j])

\* C13: the traces iterator (allow_duplicates = false) yields no label
\* sequence twice, and yields traces in non-decreasing length
C13_Statement ==
    iter.kind = "traces" /\ pc \in {"lts_loop", "lts_done"} =>
        /\ NoDuplicates(yielded)
        /\ NonDecreasingLength(yielded)

\* C14: the states iterator and the transitions iterator (allow_duplicates =
\* false), once started, yield finitely many items and then return None
C14_Statement ==
    (pc = "lts_loop" /\ iter.kind \in {"states", "transitions"}) ~> (pc = "lts_done")

\* C15: the traces iterator (allow_duplicates = false), once started, yields
\* finitely many traces and then returns None
C15_Statement ==
    (pc = "lts_loop" /\ iter.kind = "traces") ~> (pc = "lts_done")

\* C16: PaigeTarjan::bisimulation, once called on a new engine, returns after
\* finitely many refine() calls; when the loop ends the work list C is empty
\* and every block of R has at most one child
C16_PaigeTarjanTerminates ==
    /\ (pc = "pt_loop") ~> (pc = "pt_done")
    /\ [](pc = "pt_done" =>
            /\ pt.c_blocks = <<>>
            /\ \A r \in Range(pt.r_blocks) : Len(blocks[r].children) <= 1)

\* C17: NaiveFixpoint::bisimulation, once called on a new engine over n
\* states, returns after at most n*n rounds of refine(); every round replaces
\* the relation by a subset of itself; a round follows only a round that
\* removed a pair, and the loop ends right after a round that removed none
C17_NaiveTerminates ==
    /\ (pc = "nf_loop") ~> (pc = "nf_done")
    /\ [](nf.built =>
            nf.rounds <= Cardinality(DOMAIN nf.state_map) * Cardinality(DOMAIN nf.state_map))
    /\ [][nf'.rounds = nf.rounds + 1 =>
            /\ Range(nf'.relation) \subseteq Range(nf.relation)
            /\ Len(nf'.relation) <= Len(nf.relation)
            /\ nf'.last_size = Len(nf.relation)
            /\ nf.rounds >= 1 => Len(nf.relation) < nf.last_size]_vars
    /\ [][pc = "nf_loop" /\ pc' = "nf_done" =>
            nf.rounds >= 1 /\ Len(nf.relation) = nf.last_size]_vars

\* the moves of a term by the structural rules.  A move needs a finite
\* derivation, so a name met again while its own definition is being unfolded
\* contributes none.
RECURSIVE Moves(_, _, _)
Moves(t, s, unfolding) ==
    CASE t.op = "Deadlock" -> {}
      [] t.op = "ProcessName" ->
            IF t.name \in DOMAIN s.processes /\ t.name \notin unfolding
            THEN Moves(s.processes[t.name], s, unfolding \cup {t.name})
            ELSE {}
      [] t.op = "Action" -> {<<t.label, t.proc>>}
      [] t.op = "NonDetChoice" -> Moves(t.left, s, unfolding) \cup Moves(t.right, s, unfolding)
      [] t.op = "Parallel" ->
            {<<m[1], Parallel(m[2], t.right)>> : m \in Moves(t.left, s, unfolding)}
            \cup {<<m[1], Parallel(t.left, m[2])>> : m \in Moves(t.right, s, unfolding)}
            \cup {<<TAU, Parallel(l[2], r[2])>> :
                     <<l, r>> \in {lr \in Moves(t.left, s, unfolding) \X Moves(t.right, s, unfolding) :
                                      \/ lr[1][1] = lr[2][1] \o "'"
                                      \/ lr[2][1] = lr[1][1] \o "'"}}
      [] t.op = "Rename" ->
            {<<t.to, Rename(m[2], t.to, t.from)>> :
                m \in {x \in Moves(t.proc, s, unfolding) : x[1] = t.from}}
            \cup {<<m[1], Rename(m[2], t.to, t.from)>> :
                m \in {x \in Moves(t.proc, s, unfolding) : x[1] # t.from}}
      [] t.op = "Restriction" ->
            {<<m[1], Restriction(m[2], t.label)>> :
                m \in {x \in Moves(t.proc, s, unfolding) :
                          x[1] \notin {t.label, t.label \o "'"} /\ x[1] \o "'" # t.label}}

\* C18: whenever Process::direct_successors(t, S) returns, it returns exactly
\* the moves the structural rules give t in S
C18_DirectSuccessorsAreTheMoves ==
    ret.call = "direct_successors" /\ ret.returned =>
        ret.set = Moves(ret.term, system, {})

\* C19: no call of Process::direct_successors fails to return, each returns a
\* finite set, and the explorer built on it does not fail
C19_Statement ==
    /\ pc \notin StackOverflow
    /\ ret.call = "direct_successors" => ret.returned /\ IsFiniteSet(ret.set)

\* C20: on either engine done is false from construction until the first
\* bisimulation() call returns, that return sets it, and it stays true; once
\* it is true no step changes the engine and no bisimulation() call returns a
\* result: a further call panics at its assertion
C20_DoneFlag ==
    /\ [](pc \in {"pt_new", "pt_loop", "pt_label", "pt_split1", "pt_limited",
                   "pt_split2", "pt_cleanup"} => pt.built /\ ~pt.done)
    /\ [](pc \in {"nf_new", "nf_loop"} => nf.built /\ ~nf.done)
    /\ [](ret.call = "bisimulation" => IF ret.engine = "pt" THEN pt.done ELSE nf.done)
    /\ [][pt.done => UNCHANGED <<pt, blocks, nodes, trans, cells>>]_vars
    /\ [][nf.done => nf' = nf]_vars
    /\ [][ret'.call = "bisimulation" /\ ret' # ret =>
            IF ret'.engine = "pt" THEN ~pt.done ELSE ~nf.done]_vars
    /\ [][(PTBisimulation /\ pt.done) \/ (NFBisimulation /\ nf.done) =>
            pc' = "panic" /\ ret'.call = "panic"]_vars
    /\ [][pc = "panic" => UNCHANGED vars]_vars

\* bisimulation() has returned after at least two refine() calls
C16_Reached ==
    /\ pc = "pt_done"
    /\ pt.c_blocks = <<>>
    /\ Len(pt.r_blocks) >= 3

\* bisimulation() has returned after three rounds, two of which removed pairs
C17_Reached ==
    /\ pc = "nf_done"
    /\ nf.rounds >= 3
    /\ Len(nf.relation) < Cardinality(DOMAIN nf.state_map) * Cardinality(DOMAIN nf.state_map)

\* direct_successors has returned the moves of a restricted parallel
\* composition that synchronises: the tau move is kept, the two restricted
\* moves are dropped
C18_Reached ==
    /\ ret.call = "direct_successors"
    /\ ret.returned
    /\ ret.term = Restriction(Parallel(Action("a", Deadlock), Action("a'", ProcessName("A"))), "a")
    /\ ret.set = {<<TAU, Restriction(Parallel(Deadlock, ProcessName("A")), "a")>>}

\* bisimulation() was called a second time on a naive engine that had
\* returned its relation, and panicked
C20_Reached ==
    /\ pc = "panic"
    /\ ret.call = "panic"
    /\ ret.engine = "naive"
    /\ nf.done
    /\ nf.rounds >= 2

----------------------------------------------------------------------------
(* The order of the explorer *)

\* the length of the shortest path from the terms of layer to p; d is the
\* distance of layer from the root
RECURSIVE DistanceFrom(_, _, _, _, _)
DistanceFrom(s, layer, seen, d, p) ==
    IF p \in layer THEN d
    ELSE LET next == {x[2] : x \in UNION {direct_successors(q, s) : q \in layer}} \ seen
         IN  DistanceFrom(s, next, seen \cup next, d + 1, p)

Distance(s, p) ==
    DistanceFrom(s, {ProcessName(s.destinct_process)},
                 {ProcessName(s.destinct_process)}, 0, p)

\* C21: the states iterator yields Name(root) first, and then states in
\* non-decreasing order of their distance from the root
C21_Statement ==
    iter.kind = "states" /\ pc \in {"lts_loop", "lts_done"} =>
        /\ yielded # <<>> => yielded[1] = ProcessName(system.destinct_process)
        /\ \A i, j \in DOMAIN yielded :
              i <= j => Distance(system, yielded[i]) <= Distance(system, yielded[j])

----------------------------------------------------------------------------
(* The engine run as one function of the label vector *)

\* refine, steps 3 to 7 for one label
refine_label(h, b, label) ==
    LET b_prime == h.blocks[b].elements
        tids == in_transitions_of(h, b_prime, label)
        r3 == calc_predecessors(h, tids, <<>>)
        h4 == split(r3.h, r3.out)
        r5 == calc_limited_predecessors(h4, tids, <<>>)
        h6 == split(r5.h, r5.out)
        h7 == update_counters(h6, tids)
    IN  IF h7.panic THEN h7 ELSE cleanup_markers(h7, b_prime)

\* refine, the loop over the labels from position k on
RECURSIVE refine_labels(_, _, _)
refine_labels(h, b, k) ==
    IF h.panic \/ k > Len(h.pt.labels) THEN h
    ELSE refine_labels(refine_label(h, b, h.pt.labels[k]), b, k + 1)

\* PaigeTarjan::refine
refine(h) ==
    LET g == select_divider(h)
    IN  IF g.panic THEN g
        ELSE refine_labels(g, smaller_child(h, Head(h.pt.c_blocks)), 1)

\* PaigeTarjan::bisimulation: the loop calling refine until finished
RECURSIVE refine_until_finished(_)
refine_until_finished(h) ==
    IF h.panic \/ finished(h.pt) THEN h ELSE refine_until_finished(refine(h))

\* the engine built with the given label vector and run to its end
RunWithLabels(s, labelVec) ==
    refine_until_finished(new_with_labels(s, labelVec) @@ [panic |-> FALSE])

\* the partition P of a heap, as a set of sets of states
PartitionOf(h) == {Range(h.blocks[b].elements) : b \in Range(h.pt.p_blocks)}

\* C22: the final partition P is the same for every order in which refine()
\* iterates the labels
C22_Statement ==
    pt.done =>
        \A labelVec \in VecOrders(LabelsOf(system)) :
            LET r == RunWithLabels(system, labelVec)
            IN  ~r.panic /\ PartitionOf(r) = PartitionOf(Heap)

\* the run as one function ends with the partition the steps end with
RunAgreesWithSteps ==
    pt.done => PartitionOf(RunWithLabels(system, pt.labels)) = PartitionOf(Heap)

\* C23: at the start of every per-label iteration of refine(), and between
\* refine() calls, every state has mark3 = false, mark5 = false and count = 0
C23_Statement ==
    pc \in {"pt_label", "pt_loop"} =>
        \A p \in DOMAIN nodes :
            /\ ~nodes[p].mark3
            /\ ~nodes[p].mark5
            /\ cells[nodes[p].count] = 0

\* the number of transitions of the LTS from y with the label into the set B
TransitionsInto(y, label, B) ==
    Cardinality({t \in DOMAIN trans :
                    /\ trans[t].desc[1] = y
                    /\ trans[t].desc[2] = label
                    /\ trans[t].desc[3] \in B})

\* C24: at the end of step 3 for label a and splitter B, the count of every state y
\* is the number of a-labelled transitions from y into B, and pred_b holds exactly
\* the states with at least one such transition, each once
C24_Statement ==
    pc = "pt_split1" =>
        LET a == pt.labels[frame.label]
            B == Range(frame.b_prime)
        IN  /\ \A y \in DOMAIN nodes :
                  cells[nodes[y].count] = TransitionsInto(y, a, B)
            /\ Range(frame.pred_b) = {y \in DOMAIN nodes : TransitionsInto(y, a, B) >= 1}
            /\ NoDuplicates(frame.pred_b)

\* the states of the divider S' of the running refine() call that are not in B: the
\* elements of the children the divider is left with
DividerWithoutB ==
    UNION {Range(blocks[c].elements) : c \in Range(blocks[frame.divider].children)}

\* y has a transition with the label into B and none into the rest of the divider
OnlyIntoB(y, label, B) ==
    TransitionsInto(y, label, B) >= 1 /\ TransitionsInto(y, label, DividerWithoutB) = 0

\* C25: the limited-predecessor list of step 5 holds exactly the states with an
\* a-labelled transition into B and none into S' without B, each once; after
\* split(limited_pred_b) no block of P holds both a state with an a-labelled
\* transition into S' without B and a state with a-labelled transitions into B only
C25_Statement ==
    LET a == pt.labels[frame.label]
        B == Range(frame.b_prime)
    IN  /\ pc = "pt_split2" =>
              /\ Range(frame.limited_pred_b) = {y \in DOMAIN nodes : OnlyIntoB(y, a, B)}
              /\ NoDuplicates(frame.limited_pred_b)
        /\ pc = "pt_cleanup" =>
              \A d \in Range(pt.p_blocks) :
                  \A x, y \in Range(blocks[d].elements) :
                      ~(TransitionsInto(x, a, DividerWithoutB) >= 1 /\ OnlyIntoB(y, a, B))

\* C26: after step 4 for label a and splitter B, every block of P is stable with
\* respect to (a, B): all of its states have an a-labelled transition into B, or none
C26_Statement ==
    pc = "pt_limited" =>
        LET a == pt.labels[frame.label]
            B == Range(frame.b_prime)
        IN  \A d \in Range(pt.p_blocks) :
                \A x, y \in Range(blocks[d].elements) :
                    TransitionsInto(x, a, B) >= 1 <=> TransitionsInto(y, a, B) >= 1

\* the engine is built and no refine() call is running
BetweenRefineCalls == pt.built /\ pc \in {"pt_new", "pt_loop", "pt_done"}

\* the number of positions of the list q that hold e
Occurrences(q, e) == Cardinality({i \in DOMAIN q : q[i] = e})

\* C27: between refine() calls each state is an element of exactly one block of P,
\* which is its block_in_p, and each block of P is a child of exactly one block of
\* R, which is its upper_in_r
C27_PartitionLinksConsistent ==
    BetweenRefineCalls =>
        /\ NoDuplicates(pt.p_blocks) /\ NoDuplicates(pt.r_blocks)
        /\ \A p \in DOMAIN nodes :
              /\ {d \in Range(pt.p_blocks) : p \in Range(blocks[d].elements)}
                     = {nodes[p].block_in_p}
              /\ Occurrences(blocks[nodes[p].block_in_p].elements, p) = 1
        /\ \A d \in Range(pt.p_blocks) :
              /\ {u \in Range(pt.r_blocks) : d \in Range(blocks[u].children)}
                     = {blocks[d].upper_in_r}
              /\ Occurrences(blocks[blocks[d].upper_in_r].children, d) = 1

\* a refine() call has returned and a state is in a block that split() created
C27_Reached ==
    /\ pc = "pt_loop"
    /\ \E p \in DOMAIN nodes : \E u \in Range(pt.r_blocks) :
          u > 1 /\ nodes[p].block_in_p > u

\* C28: between refine() calls the work list C holds exactly the blocks of R whose
\* children list holds at least two blocks, each of them once
C28_WorkListIsCompoundBlocks ==
    BetweenRefineCalls =>
        /\ NoDuplicates(pt.c_blocks)
        /\ Range(pt.c_blocks)
              = {u \in Range(pt.r_blocks) : Len(blocks[u].children) >= 2}

\* a refine() call has returned and split() has queued a block of R that refine()
\* created
C28_Reached ==
    pc = "pt_loop" /\ \E u \in Range(pt.c_blocks) : u > 1

\* the labels of the moves of p
OutLabels(p) == {x[1] : x \in direct_successors(p, system)}

\* C29: after new_with_labels two states are in the same block of P exactly when
\* they have the same set of outgoing labels; R and C each hold the universe block
\* Q only; the children of Q are the blocks of P and one empty sentinel block that
\* is not in P; block_in_p of every state is the block that holds it
C29_InitialPartition ==
    pc = "pt_new" =>
        /\ \A p, q \in DOMAIN nodes : SameBlock(p, q) <=> OutLabels(p) = OutLabels(q)
        /\ Len(pt.r_blocks) = 1 /\ pt.c_blocks = pt.r_blocks
        /\ LET Q == pt.r_blocks[1]
               sentinels == Range(blocks[Q].children) \ Range(pt.p_blocks)
           IN  /\ Range(pt.p_blocks) \subseteq Range(blocks[Q].children)
               /\ NoDuplicates(blocks[Q].children)
               /\ Cardinality(sentinels) = 1
               /\ \A e \in sentinels : blocks[e].elements = <<>>
               /\ \A d \in Range(blocks[Q].children) : blocks[d].upper_in_r = Q
        /\ \A p \in DOMAIN nodes :
              /\ nodes[p].block_in_p \in Range(pt.p_blocks)
              /\ p \in Range(blocks[nodes[p].block_in_p].elements)

\* an engine is built whose P has two blocks, one of them holding two states
C29_Reached ==
    /\ pc = "pt_new"
    /\ Len(pt.p_blocks) >= 2
    /\ \E d \in Range(pt.p_blocks) : Len(blocks[d].elements) >= 2

\* steps 1 and 2 of a refine() call have just run
DividerSelected == pc = "pt_label" /\ frame.label = 1

\* C30: the block chosen as B has no more elements than the other of the two
\* children of the divider it was compared with, and holds at most half of the
\* states of the divider
C30_SmallerHalf ==
    DividerSelected =>
        LET B == blocks[frame.b].elements
            other == blocks[frame.divider].children[1]
        IN  /\ Len(B) <= Len(blocks[other].elements)
            /\ 2 * Len(B) <= Cardinality(Range(B) \cup DividerWithoutB)

\* a block of two states has been chosen as B
C30_Reached == DividerSelected /\ Len(blocks[frame.b].elements) >= 2

----------------------------------------------------------------------------
(* The number of refine() calls a state is a splitter element in *)

\* the run of the loop of bisimulation() from the heap h; counts[p] is the number
\* of refine() calls so far whose selected block B held p when it was selected
RECURSIVE splitter_counts(_, _)
splitter_counts(h, counts) ==
    IF h.panic \/ finished(h.pt) \/ Len(h.blocks[Head(h.pt.c_blocks)].children) < 2
    THEN counts
    ELSE LET B == Range(h.blocks[smaller_child(h, Head(h.pt.c_blocks))].elements)
         IN  splitter_counts(refine(h),
                             [p \in DOMAIN counts |->
                                 IF p \in B THEN counts[p] + 1 ELSE counts[p]])

\* the logarithm to the base 2, rounded down
RECURSIVE Log2(_)
Log2(n) == IF n <= 1 THEN 0 ELSE 1 + Log2(n \div 2)

\* the counts of the complete run of the engine that was just built
CountsOfRun == splitter_counts(Heap, [p \in DOMAIN nodes |-> 0])

\* C31: over a complete run on an LTS with n states, each state is an element of
\* the selected splitter B in at most log2(n), rounded down, refine() calls
C31_SplitterLogBound ==
    pc = "pt_new" =>
        \A p \in DOMAIN nodes : CountsOfRun[p] <= Log2(Cardinality(DOMAIN nodes))

\* an engine on four states is built, and one state is a splitter element in two
\* refine() calls of its run
C31_Reached ==
    /\ pc = "pt_new"
    /\ Cardinality(DOMAIN nodes) = 4
    /\ \E p \in DOMAIN nodes : CountsOfRun[p] = 2

----------------------------------------------------------------------------
(* The blocks after split *)

\* a split() call of the running refine() call has just returned
AfterSplit == pc \in {"pt_limited", "pt_cleanup"}

\* the empty block new_with_labels appends to the children of Q
EmptyBlockOfNew == 2

\* C32: after every split() call P holds no block with an empty elements list, no
\* block emptied by a split is a child of a block of R, and no block has its
\* attached pointer set
C32_SplitLeavesNoEmptyBlock ==
    AfterSplit =>
        /\ \A d \in Range(pt.p_blocks) : blocks[d].elements # <<>>
        /\ \A u \in Range(pt.r_blocks) : \A c \in Range(blocks[u].children) :
              blocks[c].elements = <<>> => c = EmptyBlockOfNew
        /\ \A k \in DOMAIN blocks : blocks[k].attached = 0

\* a split() call has returned that moved every state of a block and dropped it
C32_Reached ==
    /\ AfterSplit
    /\ \E k \in DOMAIN blocks :
          /\ k # EmptyBlockOfNew
          /\ blocks[k].upper_in_r # 0
          /\ blocks[k].elements = <<>>
          /\ k \notin Range(pt.p_blocks)

----------------------------------------------------------------------------
(* RcList *)

\* the heap before the most recent list call
OldListHeap == [lists |-> ret.old.lists, links |-> ret.old.links, panic |-> FALSE]

\* len() is the number of elements iter() reaches, head and tail are the first and
\* the last of them, the head has no prev link, the tail has no next link, and
\* the next and prev links of neighbours are mutually inverse
ListWellFormed(l) ==
    LET q == RcList_iter(ListHeap, l)
    IN  /\ RcList_len(ListHeap, l) = Len(q)
        /\ IF q = <<>> THEN lists[l].head = 0 /\ lists[l].tail = 0
           ELSE /\ lists[l].head = q[1] /\ links[q[1]].prev = 0
                /\ lists[l].tail = q[Len(q)] /\ links[q[Len(q)]].next = 0
        /\ \A i \in 1..(Len(q) - 1) :
              links[q[i]].next = q[i + 1] /\ links[q[i + 1]].prev = q[i]

\* the most recent call has changed what iter() yields as a queue does: append adds
\* the element at the end, remove takes it out, pop_front returns and takes out the
\* first, or returns None and changes nothing; the other list yields what it did
ListCallEffect ==
    LET l == ret.list
        before == RcList_iter(OldListHeap, l)
        after == RcList_iter(ListHeap, l)
    IN  /\ ret.call = "append" => after = Append(before, ret.e)
        /\ ret.call = "remove" => after = Remove(before, ret.e)
        /\ ret.call = "pop_front" =>
              IF before = <<>>
              THEN ret.e = 0 /\ lists = ret.old.lists /\ links = ret.old.links
              ELSE ret.e = Head(before) /\ after = Tail(before)
        /\ ret.call # "none" =>
              \A k \in ListIds \ {l} : RcList_iter(ListHeap, k) = RcList_iter(OldListHeap, k)

ListAsQueue == (\A l \in ListIds : ListWellFormed(l)) /\ ListCallEffect

\* C33, as stated: after any sequence of append, remove of a current member and
\* pop_front, len() is the number of elements iter() reaches, iter() yields the
\* members in the order of their appends, the head has no prev link, the tail no
\* next link, neighbouring links are mutually inverse, and pop_front returns the
\* oldest member, or None and leaves the list unchanged
C33_Statement ==
    (pc = "list" \/ (pc = "list_misused" /\ ret.call = "append")) => ListAsQueue

\* C33, amended: the same after any sequence of append of an element that is a
\* member of no list through the link field, remove of a current member and
\* pop_front
C33_Amended == pc = "list" => ListAsQueue

\* the middle one of three members has been removed
C33_Reached ==
    /\ pc = "list"
    /\ ret.call = "remove"
    /\ LET before == RcList_iter(OldListHeap, ret.list)
       IN  Len(before) = 3 /\ before[2] = ret.e

----------------------------------------------------------------------------
(* The unwraps and assertions of refine and split *)

\* C34: no unwrap or assertion of refine() or split() fails: the block popped
\* from C has two children, every block_in_p and upper_in_r that is upgraded
\* refers to a block that a list still holds, every element removed from a list
\* is a member of it, and the counter decremented in step 7 is greater than zero
C34_RefineNeverPanics ==
    /\ pc = "panic" => ret.call = "panic"
    /\ pt.built =>
          /\ \A p \in DOMAIN nodes :
                /\ nodes[p].block_in_p \in Range(pt.p_blocks)
                /\ p \in Range(blocks[nodes[p].block_in_p].elements)
          /\ \A d \in Range(pt.p_blocks) :
                /\ blocks[d].upper_in_r \in Range(pt.r_blocks)
                /\ d \in Range(blocks[blocks[d].upper_in_r].children)

\* a run of three refine() calls has ended, in which split() has dropped an
\* emptied block and step 7 has handed a transition the counter of its source
C34_Reached ==
    /\ pc = "pt_done"
    /\ Len(pt.r_blocks) >= 4
    /\ \E k \in DOMAIN blocks :
          /\ k # EmptyBlockOfNew
          /\ blocks[k].upper_in_r # 0
          /\ blocks[k].elements = <<>>
          /\ k \notin Range(pt.p_blocks)
    /\ \E t \in DOMAIN trans : trans[t].count = nodes[trans[t].desc[1]].count

----------------------------------------------------------------------------
(* The splitter of the later labels *)

\* C35: within one refine() call every label's iteration uses the same states as
\* splitter B: step 3 of a later label copies the states that the iteration of
\* the label before it used
C35_Statement ==
    [][(pc = "pt_label" /\ pc' = "pt_split1" /\ frame.label > 1)
          => Range(frame'.b_prime) = Range(frame.b_prime)]_vars

----------------------------------------------------------------------------
(* Refinement only divides *)

\* C36: two states in different blocks of P are never in the same block of P
\* again, and the partition after a split() refines the partition before it
C36_RefinementIsMonotone ==
    [][pt.built =>
          /\ \A p, q \in DOMAIN nodes : ~SameBlock(p, q) => ~SameBlock(p, q)'
          /\ pc \in {"pt_split1", "pt_split2"} =>
                \A X \in PartitionOf(Heap)' : \E Y \in PartitionOf(Heap) : X \subseteq Y]_vars

\* a split() has divided a block: two states with the same outgoing labels, which
\* new_with_labels put into one block, are in different blocks
C36_Reached ==
    /\ AfterSplit
    /\ \E p, q \in DOMAIN nodes : OutLabels(p) = OutLabels(q) /\ ~SameBlock(p, q)

----------------------------------------------------------------------------
(* One list per link field *)

\* every element of the list q is in it once and in none of the lists of others
InOneList(q, others) ==
    /\ NoDuplicates(q)
    /\ \A o \in others : Range(q) \cap Range(o) = {}

\* C37: during construction and refinement every state, transition and block is,
\* for each link field, in at most one list: the elements lists of the blocks, the
\* children lists, the in_transitions lists, the lists of all states, of C, R and
\* P, the copy of B, the predecessor lists and the splitblocks list of a split()
C37_OneListPerLinkField ==
    pt.built =>
        /\ \A k \in DOMAIN blocks :
              /\ InOneList(blocks[k].elements,
                           {blocks[j].elements : j \in DOMAIN blocks \ {k}})
              /\ InOneList(blocks[k].children,
                           {blocks[j].children : j \in DOMAIN blocks \ {k}})
        /\ \A p \in DOMAIN nodes :
              InOneList(nodes[p].in_transitions,
                        {nodes[q].in_transitions : q \in DOMAIN nodes \ {p}})
        /\ NoDuplicates(pt.states)
        /\ NoDuplicates(pt.c_blocks) /\ NoDuplicates(pt.r_blocks)
        /\ NoDuplicates(pt.p_blocks)
        /\ NoDuplicates(frame.b_prime) /\ NoDuplicates(frame.pred_b)
        /\ NoDuplicates(frame.limited_pred_b)
        /\ pc = "pt_split1" => NoDuplicates(split_move(Heap, frame.pred_b, <<>>).out)
        /\ pc = "pt_split2" =>
              NoDuplicates(split_move(Heap, frame.limited_pred_b, <<>>).out)

\* the second split() of a label has moved a state that the first one had moved
\* out of its block before
C37_Reached ==
    /\ pc = "pt_cleanup"
    /\ Range(frame.limited_pred_b) \cap Range(frame.pred_b) # {}

----------------------------------------------------------------------------
(* RcList::remove of a non-member *)

\* C38: a remove(e) with an element that is not a member of the list fails its
\* assertion and leaves the head, the tail and the size of the list and the links
\* of every member as they were
C38_Statement ==
    (/\ pc \in {"panic", "list_misused"}
     /\ ret.call = "remove"
     /\ ret.e \notin Range(RcList_iter(OldListHeap, ret.list)))
        => /\ ret.panicked
           /\ lists[ret.list] = ret.old.lists[ret.list]
           /\ \A k \in ListIds : \A m \in Range(RcList_iter(OldListHeap, k)) :
                 links[m] = ret.old.links[m]
====
